---- MODULE Spec2Model ----
(***************************************************************************)
(* Model of the prototype matching and free-parameter solving engine of    *)
(* kim-tools (kim_tools/aflow_util/core.py, kim_tools/symmetry_util).     *)
(*                                                                         *)
(* Conventions.  Characters are their ASCII codes (65 = "A", 97 = "a",     *)
(* 48 = "0"), so Python's string order is integer order.  A prototype      *)
(* label is the sequence of its "_"-separated sections, each a sequence of *)
(* characters: what prototype_label.split("_") returns.  Chemical symbols  *)
(* are integers ranked alphabetically.  Fractional coordinates are         *)
(* integers in units of 1/Grid.                                            *)
(***************************************************************************)
EXTENDS Integers, Sequences, FiniteSets, TLC

VARIABLES
  inp,     \* arguments of the call under way and the external tools' answers
  pc,      \* position of the call
  out,     \* what the call returned or raised
  work,    \* locals of solve_for_internal_params that live across iterations
  replay   \* a second attempt on the same inputs (determinism)

vars == <<inp, pc, out, work, replay>>

-----------------------------------------------------------------------------
(* Bounds of the model *)

\* fractional coordinates and parameter values are multiples of 1/Grid, Grid even
HalfGrid == 3
Grid == 2 * HalfGrid

-----------------------------------------------------------------------------
(* Generic helpers *)

Range(s) == {s[i] : i \in DOMAIN s}

RECURSIVE Insert(_, _, _)
\* x put into the key-sorted sequence s after every element whose key is <= its own
Insert(s, x, key) ==
  IF s = <<>> THEN <<x>>
  ELSE IF key[x] < key[Head(s)] THEN <<x>> \o s
  ELSE <<Head(s)>> \o Insert(Tail(s), x, key)

RECURSIVE StableSortBy(_, _)
\* list.sort(key=...): stable, ascending.  The elements of s are indices, key maps them
StableSortBy(s, key) ==
  IF s = <<>> THEN <<>>
  ELSE LET n == Len(s)
       IN  Insert(StableSortBy(SubSeq(s, 1, n - 1), key), s[n], key)

RECURSIVE Flatten(_)
Flatten(ss) == IF ss = <<>> THEN <<>> ELSE Head(ss) \o Flatten(Tail(ss))

Return(v) == [kind |-> "return", exc |-> "", value |-> v]
Raise(e)  == [kind |-> "raise", exc |-> e, value |-> <<>>]
Pending   == [kind |-> "pending", exc |-> "", value |-> <<>>]
\* a plain  return None
ReturnNone == [kind |-> "none", exc |-> "", value |-> <<>>]

-----------------------------------------------------------------------------
(* Characters *)

isalpha(c) == c \in 65..90 \/ c \in 97..122
isdigit(c) == c \in 48..57
int(c) == c - 48

-----------------------------------------------------------------------------
(* Symmetry reference tables *)

\* are_in_same_wyckoff_set.wyckoff_sets: row sg lists the Wyckoff sets of space group sg
wyckoff_sets == <<
  <<{97}>>,
  <<{97,98,99,100,101,102,103,104}, {105}>>,
  <<{97,98,99,100}, {101}>>,
  <<{97}>>,
  <<{97,98}, {99}>>,
  <<{97,98}, {99}>>,
  <<{97}>>,
  <<{97}, {98}>>,
  <<{97}>>,
  <<{97,98,99,100,101,102,103,104}, {105,106,107,108}, {109,110}, {111}>>,
  <<{97,98,99,100}, {101}, {102}>>,
  <<{97,98,99,100}, {101,102}, {103,104}, {105}, {106}>>,
  <<{97,98,99,100}, {101,102}, {103}>>,
  <<{97,98,99,100}, {101}>>,
  <<{97,98,99,100}, {101}, {102}>>,
  <<{97,98,99,100,101,102,103,104}, {105,106,107,108,109,110,111,112,113,114,115,116}, {117}>>,
  <<{97,98,99,100}, {101}>>,
  <<{97,98}, {99}>>,
  <<{97}>>,
  <<{97,98}, {99}>>,
  <<{97,98,99,100}, {101,102,103,104}, {105,106}, {107}, {108}>>,
  <<{97,98,99,100}, {101,102,103,104,105,106}, {107}>>,
  <<{97,98,99,100}, {101,102,103,104,105,106}, {107}>>,
  <<{97,98,99}, {100}>>,
  <<{97,98,99,100}, {101,102,103,104}, {105}>>,
  <<{97,98}, {99}>>,
  <<{97,98,99,100}, {101}>>,
  <<{97,98}, {99}, {100}>>,
  <<{97}>>,
  <<{97,98}, {99}>>,
  <<{97}, {98}>>,
  <<{97,98}, {99}>>,
  <<{97}>>,
  <<{97,98}, {99}>>,
  <<{97,98}, {99}, {100,101}, {102}>>,
  <<{97}, {98}>>,
  <<{97,98}, {99}, {100}>>,
  <<{97,98}, {99}, {100,101}, {102}>>,
  <<{97,98}, {99}, {100}>>,
  <<{97}, {98}, {99}>>,
  <<{97}, {98}>>,
  <<{97}, {98}, {99,100}, {101}>>,
  <<{97}, {98}>>,
  <<{97,98}, {99,100}, {101}>>,
  <<{97,98}, {99}>>,
  <<{97}, {98}, {99}>>,
  <<{97,98,99,100,101,102,103,104}, {105,106,107,108,109,110,111,112,113,114,115,116}, {117,118,119,120,121,122}, {65}>>,
  <<{97,98,99,100}, {101,102}, {103,104,105,106,107,108}, {109}>>,
  <<{97,98,99,100}, {101,102,103,104}, {105,106,107,108}, {109,110,111,112}, {113}, {114}>>,
  <<{97,98,99,100}, {101,102}, {103,104,105,106}, {107,108}, {109}>>,
  <<{97,98,99,100}, {101,102}, {103,104}, {105,106}, {107}, {108}>>,
  <<{97,98}, {99}, {100}, {101}>>,
  <<{97,98,99,100}, {101,102}, {103}, {104}, {105}>>,
  <<{97,98}, {99}, {100,101}, {102}>>,
  <<{97,98,99,100}, {101,102}, {103,104}, {105}>>,
  <<{97,98}, {99,100}, {101}>>,
  <<{97,98}, {99}, {100}, {101}>>,
  <<{97,98,99,100}, {101,102}, {103}, {104}>>,
  <<{97,98}, {99,100}, {101,102}, {103}>>,
  <<{97,98}, {99}, {100}>>,
  <<{97,98}, {99}>>,
  <<{97,98}, {99}, {100}>>,
  <<{97,98}, {99}, {100}, {101}, {102}, {103}, {104}>>,
  <<{97,98}, {99}, {100}, {101}, {102}, {103}>>,
  <<{97,98,99,100}, {101,102}, {103,104,105,106}, {107,108}, {109}, {110,111}, {112,113}, {114}>>,
  <<{97,98}, {99,100}, {101,102}, {103,104}, {105,106}, {107}, {108}, {109}>>,
  <<{97,98}, {99,100,101,102}, {103}, {104,105,106,107}, {108}, {109,110}, {111}>>,
  <<{97,98}, {99,100}, {101,102}, {103}, {104}, {105}>>,
  <<{97,98}, {99,100,101}, {102}, {103,104,105}, {106,107,108}, {109,110,111}, {112}>>,
  <<{97,98}, {99,100}, {101,102,103}, {104}>>,
  <<{97,98,99,100}, {101,102,103,104,105,106}, {107}, {108,109,110}, {111}>>,
  <<{97,98}, {99,100}, {101}, {102,103}, {104,105}, {106}, {107}>>,
  <<{97,98}, {99,100,101}, {102}>>,
  <<{97,98,99,100}, {101}, {102,103}, {104,105}, {106}>>,
  <<{97,98}, {99}, {100}>>,
  <<{97}>>,
  <<{97,98}, {99}, {100}>>,
  <<{97}>>,
  <<{97}, {98}, {99}>>,
  <<{97}, {98}>>,
  <<{97,98,99,100}, {101,102}, {103}, {104}>>,
  <<{97,98,99,100}, {101,102}, {103}>>,
  <<{97,98,99,100}, {101,102}, {103,104}, {105}, {106,107}, {108}>>,
  <<{97,98}, {99,100}, {101,102}, {103,104}, {105}, {106}, {107}>>,
  <<{97,98}, {99}, {100,101}, {102}, {103}>>,
  <<{97,98}, {99,100}, {101}, {102}, {103}>>,
  <<{97,98}, {99}, {100}, {101}, {102}, {103}, {104}, {105}>>,
  <<{97,98}, {99,100}, {101}, {102}>>,
  <<{97,98,99,100}, {101,102}, {103,104}, {105}, {106,107}, {108,109,110,111}, {112}>>,
  <<{97,98}, {99}, {100}, {101,102}, {103}>>,
  <<{97,98}, {99}, {100}>>,
  <<{97}, {98}>>,
  <<{97,98}, {99,100}, {101,102}, {103,104}, {105}, {106,107,108,109}, {110,111}, {112}>>,
  <<{97,98}, {99}, {100}, {101,102}, {103}>>,
  <<{97,98}, {99}, {100}>>,
  <<{97}, {98}>>,
  <<{97,98}, {99}, {100}, {101}, {102}, {103}, {104,105}, {106}, {107}>>,
  <<{97,98}, {99}, {100,101}, {102}, {103}>>,
  <<{97,98}, {99}, {100}, {101,102}, {103}>>,
  <<{97}, {98}, {99}, {100}>>,
  <<{97,98}, {99}, {100}, {101}>>,
  <<{97}, {98}, {99}, {100}>>,
  <<{97,98}, {99}, {100}>>,
  <<{97}, {98}, {99}>>,
  <<{97,98}, {99}, {100,101}, {102}>>,
  <<{97}, {98}, {99}>>,
  <<{97}, {98}, {99}, {100}, {101}>>,
  <<{97}, {98}, {99}, {100}>>,
  <<{97}, {98}, {99}>>,
  <<{97}, {98}>>,
  <<{97,98,99,100}, {101,102}, {103,104}, {105,106,107,108}, {109}, {110}, {111}>>,
  <<{97,99}, {101,102}, {98,100}, {103,104,105,106}, {107,108}, {109}, {110}>>,
  <<{97,98}, {99}, {100}, {101}, {102}>>,
  <<{97,98}, {99}, {100}, {101}>>,
  <<{97,98,99,100}, {101,102}, {103}, {104,105}, {106,107}, {108}>>,
  <<{97,98}, {99,100}, {101,102}, {103,104}, {105}, {106}>>,
  <<{97,98}, {99,100}, {101}, {102}, {103,104}, {105}>>,
  <<{97,98}, {99,100}, {101}, {102,103}, {104}, {105}>>,
  <<{97,98,99,100}, {101,102}, {103,104}, {105}, {106}>>,
  <<{97,100}, {98,99}, {101,104}, {102,103}, {105}>>,
  <<{97,98}, {99}, {100}, {101}, {102,103}, {104}, {105}, {106}>>,
  <<{97,98}, {99}, {100}, {101}>>,
  <<{97,98,99,100}, {101,102}, {103,104}, {105}, {106,107}, {108,109,110,111}, {112,113}, {114}, {115,116}, {117}>>,
  <<{97,99}, {98,100}, {101}, {102}, {103,104}, {105}, {106}, {107,108}, {109}, {110}>>,
  <<{97,98}, {99,100}, {101,102}, {103}, {104}, {105,106}, {107,108}, {109}, {110}>>,
  <<{97,98}, {99}, {100}, {101}, {102}, {103}, {104}, {105,106}, {107}>>,
  <<{97,98}, {99,100}, {101}, {102}, {103,104}, {105,106}, {107}, {108}>>,
  <<{97,98}, {99}, {100}, {101}, {102}, {103}, {104}, {105}>>,
  <<{97,98}, {99}, {100,101}, {102}, {103,104}, {105}, {106}, {107}>>,
  <<{97}, {98}, {99}, {100}, {101}, {102}, {103}>>,
  <<{97,98}, {99,100}, {101,102}, {103,104}, {105}, {106,107,108,109}, {110}, {111,112}, {113}, {114}>>,
  <<{97,99}, {98,100}, {101}, {102}, {103,104}, {107}, {105,106}, {108,109}, {110}, {111}, {112}>>,
  <<{97}, {98}, {99}, {100}, {101}, {102}, {103}, {104,105}, {106}, {107}>>,
  <<{97,98}, {99}, {100}, {101,102}, {103}, {104}, {105,106}, {107,108}, {109}, {110}>>,
  <<{97}, {98}, {99}, {100}, {101}, {102}, {103}, {104}, {105}>>,
  <<{97,98}, {99}, {100}, {101}, {102,103}, {104}, {105}, {106}, {107}>>,
  <<{97,98}, {99}, {100}, {101}, {102}, {103}, {104}>>,
  <<{97}, {98}, {99,100}, {101}, {102}, {103,104}, {105}, {106}>>,
  <<{97,98}, {99}, {100}, {101}, {102}, {103}, {104}, {105,106}, {107}, {108}, {109}, {110}, {111}>>,
  <<{97}, {98}, {99}, {100}, {101}, {102}, {103}, {104}, {105}, {106}, {107}, {108}, {109}>>,
  <<{97,98}, {99,100}, {101}, {102}, {103}, {104}, {105}>>,
  <<{97}, {98}, {99}, {100}, {101}, {102}, {103}>>,
  <<{97,98,99}, {100}>>,
  <<{97}>>,
  <<{97}>>,
  <<{97}, {98}>>,
  <<{97,98}, {99}, {100}, {101,102}, {103}>>,
  <<{97,98}, {99}, {100,101}, {102}>>,
  <<{97,98,99,100,101,102}, {103,104,105}, {106,107}, {108}>>,
  <<{97,98}, {99}, {100}, {101,102}, {103}>>,
  <<{97,98}, {99}>>,
  <<{97,98}, {99}>>,
  <<{97,98}, {99}>>,
  <<{97,98}, {99}>>,
  <<{97,98}, {99}, {100,101}, {102}>>,
  <<{97,98,99}, {100}, {101}>>,
  <<{97}, {98}, {99}, {100}>>,
  <<{97,98,99}, {100}>>,
  <<{97}, {98}, {99}>>,
  <<{97}, {98}, {99}>>,
  <<{97}, {98}>>,
  <<{97,98}, {99,100}, {101}, {102,103}, {104}, {105,106}, {107}, {108}>>,
  <<{97}, {98}, {99,100}, {101}, {102}, {103}, {104}, {105}>>,
  <<{97,98}, {99}, {100}, {101,102}, {103,104}, {105}, {106}>>,
  <<{97}, {98}, {99}, {100}, {101}, {102}, {103}>>,
  <<{97,98}, {99}, {100,101}, {102,103}, {104}, {105}>>,
  <<{97}, {98}, {99}, {100}, {101}, {102}>>,
  <<{97}, {98}, {99}, {100}>>,
  <<{97}>>,
  <<{97}>>,
  <<{97}, {98}, {99}>>,
  <<{97}, {98}, {99}>>,
  <<{97}, {98}, {99}>>,
  <<{97,98,99,100,101,102}, {103,104,105}, {106,107}, {108}>>,
  <<{97,98}, {99,100}, {101}, {102,103}, {104}, {105}, {106,107}, {108}>>,
  <<{97}, {98}, {99,100}, {101}, {102}, {103}, {104}, {105}>>,
  <<{97,98}, {99,100}, {101}, {102,103}, {104}, {105}, {106,107}, {108,109}, {110}>>,
  <<{97}, {98}, {99}>>,
  <<{97}, {98}, {99}>>,
  <<{97,98}, {99,100}, {101}, {102}, {103,104}, {105,106}, {107}>>,
  <<{97,98}, {99,100}, {101}, {102}, {103,104}, {105,106}, {107}>>,
  <<{97}, {98}, {99,100}, {101}, {102}, {103}, {104}, {105}>>,
  <<{97}, {98}, {99}, {100}, {101}, {102}>>,
  <<{97}, {98}, {99}, {100}>>,
  <<{97}, {98}, {99}, {100}>>,
  <<{97}, {98}, {99}, {100}>>,
  <<{97,98,99,100,101,102}, {103,104,105}, {106,107}, {108,109}, {110}, {111}>>,
  <<{97,99,101}, {98,100,102}, {103,104,105}, {106}, {107}, {108}>>,
  <<{97,98}, {99,100}, {101}, {102,103}, {104}, {105}, {106,107}, {108}>>,
  <<{97}, {98}, {99,100}, {101}, {102}, {103}, {104}, {105}>>,
  <<{97,98}, {99,100}, {101}, {102,103}, {104}, {105}, {106,107}, {108,109}, {110}, {111}, {112,113}, {114}>>,
  <<{97}, {98}, {99}, {100}, {101}, {102}, {103}, {104}, {105}, {106}, {107}, {108}, {109}>>,
  <<{97}, {98}, {99}, {100}, {101}, {102}, {103}, {104}, {105}, {106}, {107}, {108}>>,
  <<{97}, {98}, {99,100}, {101}, {102}, {103}, {104}, {105}, {106}, {107}, {108}>>,
  <<{97,98}, {99,100}, {101}, {102,105}, {103,104}, {106}>>,
  <<{97,98,99,100}, {101}, {102,103}, {104}>>,
  <<{97}, {98}, {99}, {100}, {101}, {102}>>,
  <<{97}, {98}>>,
  <<{97}, {98}, {99}>>,
  <<{97,98}, {99,100}, {101,104}, {102,103}, {105}, {106,107}, {108}>>,
  <<{97}, {98,99}, {100}, {101}, {102}, {103}, {104}>>,
  <<{97,98}, {99}, {100}, {101}, {102}, {103}, {104}, {105}>>,
  <<{97,98}, {99,100}, {101}, {102}, {103}>>,
  <<{97}, {98}, {99}, {100}, {101}, {102}, {103}, {104}>>,
  <<{97,98}, {99}, {100}>>,
  <<{97,98}, {99}, {100}, {101}>>,
  <<{97,98}, {99,100}, {101,102}, {103}, {104}, {105,106}, {107}>>,
  <<{97}, {98,99}, {100}, {101,102}, {103}, {104}, {105,106}, {107,108}, {109}>>,
  <<{97,98}, {99}, {100}, {101}, {102}, {103,104}, {105}, {106}>>,
  <<{97,98}, {99,100}, {101}, {102}, {103}, {104}>>,
  <<{97}, {98}, {99}, {100}, {101}, {102}, {103}, {104}, {105}, {106}>>,
  <<{97,98}, {99}, {100}, {101}>>,
  <<{97,98}, {99}, {100}, {101}>>,
  <<{97,98}, {99,100}, {101}, {102}, {103,104}, {105}>>,
  <<{97,98}, {99,100}, {101}, {102,103}, {104}, {105}, {106}>>,
  <<{97,98,99,100}, {101}, {102,103}, {104}, {105}>>,
  <<{97}, {98}, {99}, {100}, {101}, {102}, {103}, {104}>>,
  <<{97}, {98}, {99,100}, {101}, {102}, {103,104}, {105}>>,
  <<{97,98}, {99,100}, {101}, {102,103}, {104}>>,
  <<{97,98}, {99}, {100}, {101}>>,
  <<{97,98}, {99,100}, {101,102}, {103}, {104}, {105,106}, {107,108}, {109}, {110}>>,
  <<{97}, {98}, {99}, {100}, {101}, {102}, {103}, {104}, {105}>>,
  <<{97}, {98}, {99,100}, {101}, {102}, {103,104}, {105}, {106}, {107}, {108}>>,
  <<{97}, {98,99}, {100}, {101}, {102}, {103}, {104}, {105,106}, {107}, {108}>>,
  <<{97,98}, {99}, {100}, {101}, {102}, {103}, {104,105}, {106}, {107}, {108}>>,
  <<{97}, {98}, {99}, {100}, {101}, {102}, {103}, {104}, {105}, {106}>>,
  <<{97,98}, {99,100}, {101}, {102}, {103}, {104}, {105}>>,
  <<{97}, {98}, {99}, {100}, {101}, {102}, {103}, {104}>>,
  <<{97}, {98}, {99}, {100}, {101}, {102}, {103}, {104}, {105}, {106}, {107}, {108}>>,
  <<{97}, {98}, {99}, {100}, {101}, {102}, {103}, {104}>>
>>

RECURSIVE FirstSetWith(_, _)
\* the first set of the row that holds the letter, {} when none does
FirstSetWith(row, letter) ==
  IF row = <<>> THEN {}
  ELSE IF letter \in Head(row) THEN Head(row)
  ELSE FirstSetWith(Tail(row), letter)

\* variant: letters compared literally
letters_are_equal(letter_1, letter_2, space_group_number) == letter_1 = letter_2

\* are_in_same_wyckoff_set(letter_1, letter_2, space_group_number); falling out of the
\* loop returns None, which every caller reads as false
are_in_same_wyckoff_set(letter_1, letter_2, space_group_number) ==
  letter_2 \in FirstSetWith(wyckoff_sets[space_group_number], letter_1)

\* CENTERING_DIVISORS, keyed by the centering letter P C I F R
CENTERING_DIVISORS == (80 :> 1) @@ (67 :> 2) @@ (73 :> 2) @@ (70 :> 4) @@ (82 :> 3)

-----------------------------------------------------------------------------
(* Prototype labels used as inputs *)

\* "A_cF4_225_a"
Label_A_cF4_225_a == <<<<65>>, <<99,70,52>>, <<50,50,53>>, <<97>>>>
\* "AB2_hR3_166_a_c"
Label_AB2_hR3_166_a_c == <<<<65,66,50>>, <<104,82,51>>, <<49,54,54>>, <<97>>, <<99>>>>
\* "AB_cF8_225_a_b"
Label_AB_cF8_225_a_b == <<<<65,66>>, <<99,70,56>>, <<50,50,53>>, <<97>>, <<98>>>>
\* "A_tP4_112_ab"
Label_A_tP4_112_ab == <<<<65>>, <<116,80,52>>, <<49,49,50>>, <<97,98>>>>
\* "A_mC8_12_2i"
Label_A_mC8_12_2i == <<<<65>>, <<109,67,56>>, <<49,50>>, <<50,105>>>>
\* "A_aP2_2_i"
Label_A_aP2_2_i == <<<<65>>, <<97,80,50>>, <<50>>, <<105>>>>

\* "A_hR4_166_2c"
Label_A_hR4_166_2c == <<<<65>>, <<104,82,52>>, <<49,54,54>>, <<50,99>>>>
\* "A_mC4_12_i"
Label_A_mC4_12_i == <<<<65>>, <<109,67,52>>, <<49,50>>, <<105>>>>

\* "A_cF4_221_a"
Label_A_cF4_221_a == <<<<65>>, <<99,70,52>>, <<50,50,49>>, <<97>>>>
\* "A_aP2_2_j"
Label_A_aP2_2_j == <<<<65>>, <<97,80,50>>, <<50>>, <<106>>>>
\* "A2B_aP3_2_ab_c"
Label_A2B_aP3_2_ab_c == <<<<65,50,66>>, <<97,80,51>>, <<50>>, <<97,98>>, <<99>>>>
\* "A_tP4_76_a"
Label_A_tP4_76_a == <<<<65>>, <<116,80,52>>, <<55,54>>, <<97>>>>
\* "A_tP4_78_a"
Label_A_tP4_78_a == <<<<65>>, <<116,80,52>>, <<55,56>>, <<97>>>>
\* "A_tP4_77_d"
Label_A_tP4_77_d == <<<<65>>, <<116,80,52>>, <<55,55>>, <<100>>>>
\* "A_aP2_2_ab"
Label_A_aP2_2_ab == <<<<65>>, <<97,80,50>>, <<50>>, <<97,98>>>>
-----------------------------------------------------------------------------
(* Label parser *)

RECURSIVE int_of(_, _)
\* int(s) of a string of decimal digits, most significant first (acc is the value so far)
int_of(s, acc) == IF s = <<>> THEN acc ELSE int_of(Tail(s), 10 * acc + int(Head(s)))

\* get_space_group_number_from_prototype
get_space_group_number_from_prototype(prototype_label) == int_of(prototype_label[3], 0)

\* get_pearson_symbol_from_prototype
get_pearson_symbol_from_prototype(prototype_label) == prototype_label[2]

\* get_centering_from_prototype
get_centering_from_prototype(prototype_label) ==
  get_pearson_symbol_from_prototype(prototype_label)[2]

\* get_centering_divisor_from_prototype
get_centering_divisor_from_prototype(prototype_label) ==
  CENTERING_DIVISORS[get_centering_from_prototype(prototype_label)]

\* variant: the count is ignored
repeated_once(c, n) == <<c>>

\* char * curr_wyckoff_count
Repeat(c, n) == [i \in 1..n |-> c]

RECURSIVE expand_section(_, _, _)
\* the inner loop of get_wyckoff_lists_from_prototype over one section: acc is
\* expanded_wyckoff_letters[-1], count is curr_wyckoff_count
expand_section(s, count, acc) ==
  IF s = <<>> THEN [err |-> FALSE, val |-> acc]
  ELSE LET char == Head(s)
       IN  IF isalpha(char)
           THEN expand_section(Tail(s), 0,
                               acc \o Repeat(char, IF count = 0 THEN 1 ELSE count))
           ELSE IF ~isdigit(char) THEN [err |-> TRUE, val |-> acc]
           ELSE expand_section(Tail(s), 10 * count + int(char), acc)

\* get_wyckoff_lists_from_prototype: one expanded string per section after the third
get_wyckoff_lists_from_prototype(prototype_label) ==
  LET sections == SubSeq(prototype_label, 4, Len(prototype_label))
      each == [i \in DOMAIN sections |-> expand_section(sections[i], 0, <<>>)]
  IN  [err |-> \E i \in DOMAIN each : each[i].err,
       val |-> [i \in DOMAIN each |-> each[i].val]]

-----------------------------------------------------------------------------
(* Atom count check *)

RECURSIVE pearson_count(_, _)
\* the loop of check_number_of_atoms over the Pearson symbol: digits accumulate,
\* other characters are skipped
pearson_count(pearson, acc) ==
  IF pearson = <<>> THEN acc
  ELSE pearson_count(Tail(pearson),
                     IF isdigit(Head(pearson)) THEN 10 * acc + int(Head(pearson)) ELSE acc)

\* variant: the Pearson count taken as written for every centering
num_conv_cell_as_written(pearson) == pearson_count(pearson, 0)

\* num_conv_cell after the rhombohedral adjustment
num_conv_cell_of(pearson) ==
  IF pearson[2] = 82 THEN 3 * pearson_count(pearson, 0) ELSE pearson_count(pearson, 0)

\* check_number_of_atoms(atoms, prototype_label, primitive_cell): "" when it returns,
\* else the name of the exception
check_number_of_atoms(natoms, prototype_label, primitive_cell) ==
  LET pearson == prototype_label[2]
      centering == pearson[2]
      num_conv_cell == num_conv_cell_of(pearson)
  IN  IF primitive_cell /\ centering \notin DOMAIN CENTERING_DIVISORS THEN "KeyError"
      ELSE LET num_lattice == IF ~primitive_cell THEN 1 ELSE CENTERING_DIVISORS[centering]
           IN  IF num_conv_cell % num_lattice # 0 THEN "incorrectNumAtomsException"
               ELSE IF natoms # num_conv_cell \div num_lattice
                    THEN "incorrectNumAtomsException"
                    ELSE ""

-----------------------------------------------------------------------------
(* Orbit extractor *)

\* list(a set) in the iteration order the hash table gives it: hash lists every
\* possible element once
ListOfSet(S, hash) == SelectSeq(hash, LAMBDA x : x \in S)

\* sorted(l) for a list of integers
sorted(l) == LET idx == [i \in DOMAIN l |-> i]
                 s == StableSortBy(idx, [i \in DOMAIN l |-> l[i]])
             IN  [i \in DOMAIN l |-> l[s[i]]]

\* variant: the set of orbit representatives is listed but not sorted
inequivalent_atom_indices_unsorted(ds, hash) ==
  ListOfSet(Range(ds.crystallographic_orbits), hash)

\* sorted(list(set(ds.crystallographic_orbits)))
inequivalent_atom_indices_of(ds, hash) ==
  sorted(ListOfSet(Range(ds.crystallographic_orbits), hash))

\* the unsorted equivalent_atom_set_list: one EquivalentAtomSet per inequivalent
\* atom, filled with the positions of its orbit in atom order
equivalent_atom_sets(atoms, ds, hash) ==
  LET reps == inequivalent_atom_indices_of(ds, hash)
      atom_idx == [i \in DOMAIN atoms |-> i]
  IN  [k \in DOMAIN reps |->
         [species |-> atoms[reps[k]].symbol,
          wyckoff_letter |-> ds.wyckoffs[reps[k]],
          frac_position_list |->
            LET members == SelectSeq(atom_idx,
                             LAMBDA i : ds.crystallographic_orbits[i] = reps[k])
            IN  [j \in DOMAIN members |-> atoms[members[j]].pos]]]

\* variant: only the sort by species is made
sort_atom_sets_by_species(sets) ==
  LET idx == [i \in DOMAIN sets |-> i]
      by_species == StableSortBy(idx, [i \in DOMAIN sets |-> sets[i].species])
  IN  [i \in DOMAIN sets |-> sets[by_species[i]]]

\* the two list.sort calls: by letter, then (stably) by species
sort_atom_sets(sets) ==
  LET idx == [i \in DOMAIN sets |-> i]
      by_letter == StableSortBy(idx, [i \in DOMAIN sets |-> sets[i].wyckoff_letter])
      by_species == StableSortBy(by_letter, [i \in DOMAIN sets |-> sets[i].species])
  IN  [i \in DOMAIN sets |-> sets[by_species[i]]]

\* variant: the detected space group is not compared with the label's
check_against_label_of_any_group(atoms, prototype_label, ds, sets) ==
  LET space_group_number == get_space_group_number_from_prototype(prototype_label)
      wl == get_wyckoff_lists_from_prototype(prototype_label)
      wyckoff_lists_concatenated == Flatten(wl.val)
  IN  IF Len(wyckoff_lists_concatenated) # Len(sets)
           THEN Raise("inconsistentWyckoffException")
      ELSE IF \E i \in DOMAIN sets :
                ~are_in_same_wyckoff_set(sets[i].wyckoff_letter,
                                         wyckoff_lists_concatenated[i],
                                         space_group_number)
           THEN Raise("inconsistentWyckoffException")
      ELSE Return(sets)

\* the consistency check of the sorted list against the label
check_against_label(atoms, prototype_label, ds, sets) ==
  LET space_group_number == get_space_group_number_from_prototype(prototype_label)
      wl == get_wyckoff_lists_from_prototype(prototype_label)
      wyckoff_lists_concatenated == Flatten(wl.val)
      nspecies == Cardinality({atoms[i].symbol : i \in DOMAIN atoms})
  IN  IF ds.number # space_group_number THEN Raise("incorrectSpaceGroupException")
      ELSE IF wl.err THEN Raise("AssertionError")
      ELSE IF Len(wl.val) # nspecies THEN Raise("incorrectNumSpeciesException")
      ELSE IF Len(wyckoff_lists_concatenated) # Len(sets)
           THEN Raise("inconsistentWyckoffException")
      ELSE IF \E i \in DOMAIN sets :
                ~are_in_same_wyckoff_set(sets[i].wyckoff_letter,
                                         wyckoff_lists_concatenated[i],
                                         space_group_number)
           THEN Raise("inconsistentWyckoffException")
      ELSE Return(sets)

\* group_positions_by_wyckoff(atoms, prototype_label); prototype_label = <<>> is None.
\* ds is what ase.spacegroup.symmetrize.check_symmetry answers (ok = FALSE: it raised
\* or returned None)
group_positions_by_wyckoff(atoms, prototype_label, ds, hash) ==
  LET count == IF prototype_label = <<>> THEN ""
               ELSE check_number_of_atoms(Len(atoms), prototype_label, TRUE)
  IN  IF count # "" THEN Raise(count)
      ELSE IF ~ds.ok THEN Raise("spglibFailureException")
      ELSE LET sets == sort_atom_sets(equivalent_atom_sets(atoms, ds, hash))
           IN  IF prototype_label = <<>> THEN Return(sets)
               ELSE check_against_label(atoms, prototype_label, ds, sets)

-----------------------------------------------------------------------------
(* Orbit extraction and atom counting as calls: bounded inputs *)

\* largest number of orbits and of atoms per orbit of an input structure
MaxOrbits == 2
MaxMult == 2
\* largest atom count written in a Pearson symbol / held by a structure that is counted
MaxPearson == 12
MaxCheckAtoms == 12

\* chemical symbols, by alphabetical rank
Symbols == {1, 2}
\* Wyckoff letters the symmetry finder may report: a b c i
DetectedLetters == {97, 98, 99, 105}
\* centering letters P C I F R
Centerings == {80, 67, 73, 70, 82}

GroupLabels ==
  { <<>>, Label_A_cF4_225_a, Label_AB2_hR3_166_a_c, Label_AB_cF8_225_a_b,
    Label_A_tP4_112_ab, Label_A_mC8_12_2i }

RECURSIVE Digits(_)
\* str(n), n >= 0
Digits(n) == IF n < 10 THEN <<48 + n>> ELSE Digits(n \div 10) \o <<48 + (n % 10)>>

\* a label "A_c<centering><count>_1_a"
CountLabel(centering, count) == << <<65>>, <<99, centering>> \o Digits(count), <<49>>, <<97>> >>

\* an orbit of an input structure: its species, the letter reported for it, its size
OrbitShapes == [species : Symbols, letter : DetectedLetters, mult : 1..MaxMult]

RECURSIVE BlockStart(_, _)
\* index of the first atom of block k when the blocks follow each other
BlockStart(blocks, k) == IF k = 1 THEN 1 ELSE BlockStart(blocks, k - 1) + blocks[k - 1].mult

RECURSIVE BlockOf(_, _, _)
\* the block that holds atom i (k is the block tried)
BlockOf(blocks, i, k) ==
  IF i < BlockStart(blocks, k) + blocks[k].mult THEN k ELSE BlockOf(blocks, i, k + 1)

NAtomsOf(blocks) == BlockStart(blocks, Len(blocks)) + blocks[Len(blocks)].mult - 1

\* the structure whose atoms are the blocks one after the other; atom i sits at (i,0,0)/Grid
AtomsOfBlocks(blocks) ==
  [i \in 1..NAtomsOf(blocks) |->
     [symbol |-> blocks[BlockOf(blocks, i, 1)].species, pos |-> <<i % Grid, 0, 0>>]]

\* the dataset a symmetry finder reports for it: every block one orbit, represented by
\* its first atom
DatasetOfBlocks(blocks, number, ok) ==
  [ok |-> ok, number |-> number,
   crystallographic_orbits |->
     [i \in 1..NAtomsOf(blocks) |-> BlockStart(blocks, BlockOf(blocks, i, 1))],
   wyckoffs |-> [i \in 1..NAtomsOf(blocks) |-> blocks[BlockOf(blocks, i, 1)].letter]]

IdentityHash == [i \in 1..(MaxOrbits * MaxMult + MaxCheckAtoms) |-> i]

DetectedNumbers(label) ==
  IF label = <<>> THEN {1} ELSE {get_space_group_number_from_prototype(label), 221}

\* count, centering and blocks record what the label and the structure were made from
InitExtract ==
  /\ pc = "call"
  /\ out = Pending
  /\ work = <<>>
  /\ replay = <<>>
  /\ \/ \E n \in 0..MaxCheckAtoms, count \in 1..MaxPearson, c \in Centerings,
           prim \in BOOLEAN :
          inp = [op |-> "check",
                 atoms |-> [i \in 1..n |-> [symbol |-> 1, pos |-> <<0, 0, 0>>]],
                 prototype_label |-> CountLabel(c, count),
                 primitive_cell |-> prim,
                 ds |-> <<>>,
                 count |-> count, centering |-> c]
     \/ \E k \in 1..MaxOrbits, label \in GroupLabels :
          \E blocks \in [1..k -> OrbitShapes], ok \in BOOLEAN :
            \E number \in DetectedNumbers(label) :
              inp = [op |-> "group",
                     atoms |-> AtomsOfBlocks(blocks),
                     prototype_label |-> label,
                     primitive_cell |-> TRUE,
                     ds |-> DatasetOfBlocks(blocks, number, ok),
                     blocks |-> blocks]

\* a call of check_number_of_atoms
CheckNumberOfAtoms ==
  /\ pc = "call" /\ inp.op = "check"
  /\ LET r == check_number_of_atoms(Len(inp.atoms), inp.prototype_label, inp.primitive_cell)
     IN  out' = IF r = "" THEN Return(<<>>) ELSE Raise(r)
  /\ pc' = "done"
  /\ UNCHANGED <<inp, work, replay>>

\* a call of group_positions_by_wyckoff
GroupPositions ==
  /\ pc = "call" /\ inp.op = "group"
  /\ out' = group_positions_by_wyckoff(inp.atoms, inp.prototype_label, inp.ds, IdentityHash)
  /\ pc' = "done"
  /\ UNCHANGED <<inp, work, replay>>

NextExtract == CheckNumberOfAtoms \/ GroupPositions

SpecExtract == InitExtract /\ [][NextExtract]_vars

-----------------------------------------------------------------------------
(* Exact arithmetic for the least-squares step.  Coordinates are integers in  *)
(* units of 1/Grid; a parameter value is a rational <<numerator, denominator>> *)

Abs(x) == IF x < 0 THEN -x ELSE x

RECURSIVE GCD(_, _)
GCD(a, b) == IF b = 0 THEN a ELSE GCD(b, a % b)

\* the rational n/d (d # 0) in lowest terms with a positive denominator
Rational(n, d) ==
  LET g == GCD(Abs(n), Abs(d))
      s == IF d < 0 THEN -1 ELSE 1
  IN  <<(s * n) \div g, (s * d) \div g>>

\* variant: the value is kept as solved
unwrapped(q) == q

\* Python's  value % 1  on a rational: the representative in [0,1)
Mod1(q) == <<q[1] % q[2], q[2]>>

Dot(u, v) == u[1] * v[1] + u[2] * v[2] + u[3] * v[3]

Det3(a, b, c) ==
    a[1] * (b[2] * c[3] - b[3] * c[2])
  - b[1] * (a[2] * c[3] - a[3] * c[2])
  + c[1] * (a[2] * b[3] - a[3] * b[2])

\* numpy.linalg.lstsq(coeff_matrix, rhs) and the test
\*   len(resid) == 0 or np.max(resid) < max_resid
\* coeff_matrix is the list of its columns, rhs is in units of 1/Grid.  resid is empty
\* when the matrix is square (3 columns) or rank deficient; otherwise it is the squared
\* residual, which for data on the grid is below max_resid exactly when it is zero.

\* variant: every least-squares fit is taken as a match
residual_ignored(coeff_matrix, rhs) == TRUE

\* whether the fit passes the residual test
residual_ok(coeff_matrix, rhs) ==
  LET n == Len(coeff_matrix) IN
  IF n = 0 THEN rhs = <<0, 0, 0>>
  ELSE IF n = 1 THEN
    LET a == coeff_matrix[1]
        g == Dot(a, a)
        p == Dot(a, rhs)
    IN  g = 0 \/ \A i \in 1..3 : a[i] * p = g * rhs[i]
  ELSE IF n = 2 THEN
    LET a == coeff_matrix[1]
        b == coeff_matrix[2]
        aa == Dot(a, a)
        ab == Dot(a, b)
        bb == Dot(b, b)
        d == aa * bb - ab * ab
        p1 == bb * Dot(a, rhs) - ab * Dot(b, rhs)
        p2 == aa * Dot(b, rhs) - ab * Dot(a, rhs)
    IN  d = 0 \/ \A i \in 1..3 : a[i] * p1 + b[i] * p2 = d * rhs[i]
  ELSE TRUE

\* the least-squares solution (for a rank-deficient matrix the columns of the inputs
\* are zero and the minimum-norm solution is zero)
solution(coeff_matrix, rhs) ==
  LET n == Len(coeff_matrix) IN
  IF n = 0 THEN <<>>
  ELSE IF n = 1 THEN
    LET a == coeff_matrix[1]
        g == Dot(a, a)
    IN  IF g = 0 THEN <<Rational(0, 1)>>
        ELSE <<Rational(Dot(a, rhs), g * Grid)>>
  ELSE IF n = 2 THEN
    LET a == coeff_matrix[1]
        b == coeff_matrix[2]
        aa == Dot(a, a)
        ab == Dot(a, b)
        bb == Dot(b, b)
        d == aa * bb - ab * ab
    IN  IF d = 0 THEN <<Rational(0, 1), Rational(0, 1)>>
        ELSE <<Rational(bb * Dot(a, rhs) - ab * Dot(b, rhs), d * Grid),
               Rational(aa * Dot(b, rhs) - ab * Dot(a, rhs), d * Grid)>>
  ELSE
    LET a == coeff_matrix[1]
        b == coeff_matrix[2]
        c == coeff_matrix[3]
        d == Det3(a, b, c)
    IN  IF d = 0 THEN <<Rational(0, 1), Rational(0, 1), Rational(0, 1)>>
        ELSE <<Rational(Det3(rhs, b, c), d * Grid),
               Rational(Det3(a, rhs, c), d * Grid),
               Rational(Det3(a, b, rhs), d * Grid)>>

-----------------------------------------------------------------------------
(* Parameter names and species maps *)

\* variant: the names are keyed in descending order
internal_parameter_descending_key(parameter_name) ==
  0 - (1000 * int_of(Tail(parameter_name), 0) + parameter_name[1])

\* internal_parameter_sort_key: 1000 * number + ord(axis)
internal_parameter_sort_key(parameter_name) ==
  1000 * int_of(Tail(parameter_name), 0) + parameter_name[1]

\* get_real_to_virtual_species_map(atoms): the i-th symbol of the sorted set of
\* symbols maps to chr(65 + i)
get_real_to_virtual_species_map(atoms, hash) ==
  LET species == sorted(ListOfSet({atoms[i].symbol : i \in DOMAIN atoms}, hash))
  IN  [s \in Range(species) |-> 64 + CHOOSE i \in DOMAIN species : species[i] = s]

-----------------------------------------------------------------------------
(* Orbit matching: the body of the shift loop of solve_for_internal_params *)

\* the t-th element (t = 0..26) of
\*   [(x,y,z) for x in possible_shifts for y in possible_shifts for z in possible_shifts]
shift_list(t) == <<(t \div 9) - 1, ((t \div 3) % 3) - 1, (t % 3) - 1>>

\* frac_position - const_terms - shift_array, in units of 1/Grid
rhs_of(frac_position, const_terms, shift) ==
  [i \in 1..3 |-> frac_position[i] - const_terms[i] - Grid * shift[i]]

\* the (site, position, shift) triples that pass the residual test for this equation
\* set and this position set
accepted(equation_set, position_set) ==
  { c \in (DOMAIN equation_set.coeff_matrix_list)
          \X (DOMAIN position_set.frac_position_list) \X (0..26) :
      residual_ok(equation_set.coeff_matrix_list[c[1]],
                  rhs_of(position_set.frac_position_list[c[2]],
                         equation_set.const_terms_list[c[1]],
                         shift_list(c[3]))) }

\* the place of a triple in the nested loops: site outermost, shift innermost
loop_rank(c, nq) == (c[1] * (nq + 1) + c[2]) * 27 + c[3]

first_of(ok, nq) ==
  IF ok = {} THEN [found |-> FALSE, site |-> 0, position |-> 0, shift |-> 0]
  ELSE LET c == CHOOSE c \in ok : \A e \in ok : loop_rank(c, nq) <= loop_rank(e, nq)
       IN  [found |-> TRUE, site |-> c[1], position |-> c[2], shift |-> c[3]]

\* the first (site, position, shift) of the three nested loops that passes the
\* residual test (the loops break there); found = FALSE if none does
first_accepted(equation_set, position_set) ==
  first_of(accepted(equation_set, position_set), Len(position_set.frac_position_list))

\* variant: the species of the position set is not compared
candidate_of_any_species(equation_set, position_set_list, matched, species_map, space_group_number, i) ==
  /\ ~matched[i]
  /\ are_in_same_wyckoff_set(equation_set.wyckoff_letter,
                             position_set_list[i].wyckoff_letter, space_group_number)
  /\ first_accepted(equation_set, position_set_list[i]).found

\* whether the loop over position sets stops at position set i for this equation set
candidate(equation_set, position_set_list, matched, species_map, space_group_number, i) ==
  /\ ~matched[i]
  /\ species_map[position_set_list[i].species] = equation_set.species
  /\ are_in_same_wyckoff_set(equation_set.wyckoff_letter,
                             position_set_list[i].wyckoff_letter, space_group_number)
  /\ first_accepted(equation_set, position_set_list[i]).found

\* lines 1256-1260: the assertion that no parameter is solved twice, then
\* free_params_dict[name] = value % 1 and position_set_matched_list[i] = True.
\* st holds free_params_dict, its keys in insertion order, position_set_matched_list,
\* the assertion flag, and (ghost) the position set, site, position and shift each
\* equation set was matched with
record_solution(st, names, i, f, values) ==
  LET clash == \/ \E k \in DOMAIN names : names[k] \in DOMAIN st.free_params_dict
               \/ \E k, l \in DOMAIN names : k # l /\ names[k] = names[l]
      new == [nm \in Range(names) |->
                Mod1(values[CHOOSE k \in DOMAIN names : names[k] = nm])]
  IN  IF clash THEN [st EXCEPT !.assertion = TRUE]
      ELSE [free_params_dict |-> new @@ st.free_params_dict,
            keys |-> st.keys \o names,
            matched |-> [st.matched EXCEPT ![i] = TRUE],
            assertion |-> FALSE,
            pairs |-> Append(st.pairs, [set |-> i, site |-> f.site,
                                        position |-> f.position, shift |-> f.shift])]

\* the solution at the accepted (site, position, shift) f
record_match(st, equation_set, position_set, i, f) ==
  record_solution(st, equation_set.param_names, i, f,
    solution(equation_set.coeff_matrix_list[f.site],
             rhs_of(position_set.frac_position_list[f.position],
                    equation_set.const_terms_list[f.site],
                    shift_list(f.shift))))

\* the loop over position sets stops at the first candidate; without one the equation
\* set stays unmatched
match_first(st, equation_set, position_set_list, hits) ==
  IF hits = {}
  THEN [st EXCEPT !.pairs = Append(@, [set |-> 0, site |-> 0, position |-> 0, shift |-> 0])]
  ELSE LET i == CHOOSE i \in hits : \A j \in hits : i <= j
       IN  record_match(st, equation_set, position_set_list[i], i,
                        first_accepted(equation_set, position_set_list[i]))

\* one iteration of  for equation_set in equation_set_list
match_equation_set(st, e, equation_set_list, position_set_list, species_map, space_group_number) ==
  match_first(st, equation_set_list[e], position_set_list,
              { i \in DOMAIN position_set_list :
                  candidate(equation_set_list[e], position_set_list, st.matched,
                            species_map, space_group_number, i) })

RECURSIVE match_all(_, _, _, _, _, _)
\* the loop  for equation_set in equation_set_list, from equation set e on; it stops at
\* a failed assertion
match_all(st, e, equation_set_list, position_set_list, species_map, space_group_number) ==
  IF e > Len(equation_set_list) \/ st.assertion THEN st
  ELSE match_all(match_equation_set(st, e, equation_set_list, position_set_list,
                                    species_map, space_group_number),
                 e + 1, equation_set_list, position_set_list, species_map,
                 space_group_number)

\* the list returned on success: the values of free_params_dict, its keys (in
\* insertion order) sorted by internal_parameter_sort_key
sorted_values(st) ==
  LET idx == [i \in DOMAIN st.keys |-> i]
      s == StableSortBy(idx, [i \in DOMAIN st.keys |->
                                internal_parameter_sort_key(st.keys[i])])
  IN  [i \in DOMAIN st.keys |-> st.free_params_dict[st.keys[s[i]]]]

-----------------------------------------------------------------------------
(* Label comparison *)

RECURSIVE stoich_loop_last_digit(_, _, _)
\* variant: a digit replaces the number read so far
stoich_loop_last_digit(s, curr, list) ==
  IF s = <<>> THEN [err |-> "", val |-> Append(list, IF curr = 0 THEN 1 ELSE curr)]
  ELSE LET char == Head(s)
       IN  IF isalpha(char)
           THEN stoich_loop_last_digit(Tail(s), 0,
                                       IF curr = -1 THEN list
                                       ELSE Append(list, IF curr = 0 THEN 1 ELSE curr))
           ELSE IF ~isdigit(char) THEN [err |-> "AssertionError", val |-> list]
           ELSE IF curr = -1 THEN [err |-> "TypeError", val |-> list]
           ELSE stoich_loop_last_digit(Tail(s), int(char), list)

RECURSIVE stoich_loop(_, _, _)
\* the loop of get_stoich_reduced_list_from_prototype: curr = -1 stands for None
stoich_loop(s, curr, list) ==
  IF s = <<>> THEN [err |-> "", val |-> Append(list, IF curr = 0 THEN 1 ELSE curr)]
  ELSE LET char == Head(s)
       IN  IF isalpha(char)
           THEN stoich_loop(Tail(s), 0,
                            IF curr = -1 THEN list
                            ELSE Append(list, IF curr = 0 THEN 1 ELSE curr))
           ELSE IF ~isdigit(char) THEN [err |-> "AssertionError", val |-> list]
           ELSE IF curr = -1 THEN [err |-> "TypeError", val |-> list]
           ELSE stoich_loop(Tail(s), 10 * curr + int(char), list)

\* get_stoich_reduced_list_from_prototype (an entry -1 is None)
get_stoich_reduced_list_from_prototype(prototype_label) ==
  stoich_loop(prototype_label[1], -1, <<>>)

\* space_group_numbers_are_enantiomorphic: "True", "False" or "KeyError"
enantiomorph_conversion ==
  LET half == (78 :> 76) @@ (95 :> 91) @@ (96 :> 92) @@ (145 :> 144) @@ (153 :> 151)
              @@ (154 :> 152) @@ (170 :> 169) @@ (172 :> 171) @@ (179 :> 178)
              @@ (181 :> 180) @@ (213 :> 212)
  IN  half @@ [v \in Range(half) |-> CHOOSE k \in DOMAIN half : half[k] = v]

space_group_numbers_are_enantiomorphic(sg_1, sg_2) ==
  IF sg_1 = sg_2 THEN "True"
  ELSE IF sg_1 \notin DOMAIN enantiomorph_conversion THEN "KeyError"
  ELSE IF enantiomorph_conversion[sg_1] = sg_2 THEN "True" ELSE "False"

\* the part of prototype_labels_are_equivalent after the space groups agree
wyckoff_lists_are_equivalent(prototype_label_1, prototype_label_2, sg_num_1) ==
  LET w1 == get_wyckoff_lists_from_prototype(prototype_label_1)
      w2 == get_wyckoff_lists_from_prototype(prototype_label_2)
  IN  IF w1.err \/ w2.err THEN "AssertionError"
      ELSE IF Len(w1.val) # Len(w2.val) THEN "AssertionError"
      ELSE IF sg_num_1 > 16 THEN (IF w1.val # w2.val THEN "False" ELSE "True")
      ELSE
        \* the first pair of lists of different length, or of letters in different
        \* sets, decides
        LET bad(i) == \/ Len(w1.val[i]) # Len(w2.val[i])
                      \/ \E j \in DOMAIN w1.val[i] :
                           ~are_in_same_wyckoff_set(w1.val[i][j], w2.val[i][j], sg_num_1)
            bads == {i \in DOMAIN w1.val : bad(i)}
        IN  IF bads = {} THEN "True"
            ELSE LET i == CHOOSE i \in bads : \A k \in bads : i <= k
                 IN  IF Len(w1.val[i]) # Len(w2.val[i]) THEN "AssertionError" ELSE "False"

\* prototype_labels_are_equivalent(label_1, label_2, allow_enantiomorph): "True",
\* "False", or the exception raised
prototype_labels_are_equivalent(prototype_label_1, prototype_label_2, allow_enantiomorph) ==
  LET s1 == get_stoich_reduced_list_from_prototype(prototype_label_1)
      s2 == get_stoich_reduced_list_from_prototype(prototype_label_2)
      sg_num_1 == get_space_group_number_from_prototype(prototype_label_1)
      sg_num_2 == get_space_group_number_from_prototype(prototype_label_2)
      enant == space_group_numbers_are_enantiomorphic(sg_num_2, sg_num_1)
  IN  IF s1.err # "" THEN s1.err
      ELSE IF s2.err # "" THEN s2.err
      ELSE IF s1.val # s2.val THEN "False"
      ELSE IF get_pearson_symbol_from_prototype(prototype_label_1)
              # get_pearson_symbol_from_prototype(prototype_label_2) THEN "False"
      ELSE IF allow_enantiomorph /\ enant = "KeyError" THEN "KeyError"
      ELSE IF allow_enantiomorph /\ enant = "False" THEN "False"
      ELSE IF sg_num_2 # sg_num_1 THEN "False"
      ELSE wyckoff_lists_are_equivalent(prototype_label_1, prototype_label_2, sg_num_1)

-----------------------------------------------------------------------------
(* Alignment: internal translations *)

\* whether op's ftau plus one of the shifts in {0,-1}^3 equals an existing translation
accounted_for(ftau, existing) ==
  \E k \in DOMAIN existing :
    \E x \in {0, -1}, y \in {0, -1}, z \in {0, -1} :
      /\ ftau[1] + Grid * x = existing[k][1]
      /\ ftau[2] + Grid * y = existing[k][2]
      /\ ftau[3] + Grid * z = existing[k][3]

RECURSIVE unique_translations(_, _)
\* get_unique_internal_cartesian_translations_from_atoms, given the translation parts
\* of the operations that  aflow --spacegroup  lists (the cell of the model is the unit
\* cube: Cartesian and fractional translations coincide)
unique_translations(ops, found) ==
  IF ops = <<>> THEN found
  ELSE unique_translations(Tail(ops),
         IF accounted_for(Head(ops), found) THEN found ELSE Append(found, Head(ops)))

\* atoms.translate(v)
translate(atoms, v) ==
  [i \in DOMAIN atoms |->
     [atoms[i] EXCEPT !.pos = <<@[1] + v[1], @[2] + v[2], @[3] + v[3]>>]]

\* atoms.wrap()
wrap(atoms) ==
  [i \in DOMAIN atoms |->
     [atoms[i] EXCEPT !.pos = <<@[1] % Grid, @[2] % Grid, @[3] % Grid>>]]

-----------------------------------------------------------------------------
(* Prototypes used as inputs: label, real species, and the equation sets that *)
(* get_equation_sets_from_prototype returns for the label                     *)

Half == HalfGrid
Zero3 == <<0, 0, 0>>

\* parameter names "x1" "y1" "z1" "x2"
x1 == <<120, 49>>
y1 == <<121, 49>>
z1 == <<122, 49>>
x2 == <<120, 50>>

EqnSet(species, wyckoff_letter, param_names, coeff_matrix_list, const_terms_list) ==
  [species |-> species, wyckoff_letter |-> wyckoff_letter, param_names |-> param_names,
   coeff_matrix_list |-> coeff_matrix_list, const_terms_list |-> const_terms_list]

\* sites (x,x,x) and (-x,-x,-x)
DiagonalPair == << << <<1, 1, 1>> >>, << <<-1, -1, -1>> >> >>

Prototypes == <<
  \* rock salt: A at (0,0,0), B at (1/2,1/2,1/2), no internal parameter
  [label |-> Label_AB_cF8_225_a_b, species |-> <<1, 2>>,
   equation_sets |-> << EqnSet(65, 97, <<>>, << <<>> >>, <<Zero3>>),
                        EqnSet(66, 98, <<>>, << <<>> >>, << <<Half, Half, Half>> >>) >>],
  \* molybdenite-like: A at the origin, B at +-(x2,x2,x2)
  [label |-> Label_AB2_hR3_166_a_c, species |-> <<1, 2>>,
   equation_sets |-> << EqnSet(65, 97, <<>>, << <<>> >>, <<Zero3>>),
                        EqnSet(66, 99, <<x2>>, DiagonalPair, <<Zero3, Zero3>>) >>],
  \* two orbits of the same letter and species
  [label |-> Label_A_hR4_166_2c, species |-> <<1>>,
   equation_sets |-> << EqnSet(65, 99, <<x1>>, DiagonalPair, <<Zero3, Zero3>>),
                        EqnSet(65, 99, <<x2>>, DiagonalPair, <<Zero3, Zero3>>) >>],
  \* two parameters: sites (x,x,z) and (-x,-x,-z)
  [label |-> Label_A_mC4_12_i, species |-> <<1>>,
   equation_sets |-> << EqnSet(65, 105, <<x1, z1>>,
                               << << <<1, 1, 0>>, <<0, 0, 1>> >>,
                                  << <<-1, -1, 0>>, <<0, 0, -1>> >> >>,
                               <<Zero3, Zero3>>) >>],
  \* three parameters: sites (x,y,z) and (-x,-y,-z)
  [label |-> Label_A_aP2_2_i, species |-> <<1>>,
   equation_sets |-> << EqnSet(65, 105, <<x1, y1, z1>>,
                               << << <<1, 0, 0>>, <<0, 1, 0>>, <<0, 0, 1>> >>,
                                  << <<-1, 0, 0>>, <<0, -1, 0>>, <<0, 0, -1>> >> >>,
                               <<Zero3, Zero3>>) >>]
>>

\* the internal parameter names of a list of equation sets
ParamNamesOf(equation_sets) ==
  UNION {Range(equation_sets[e].param_names) : e \in DOMAIN equation_sets}

RECURSIVE LinearPart(_, _, _, _)
\* coordinate i of coeff_matrix . values, summed over the columns from k on
LinearPart(coeff_matrix, names, values, ik) ==
  LET i == ik[1]
      k == ik[2]
  IN  IF k > Len(coeff_matrix) THEN 0
      ELSE coeff_matrix[k][i] * values[names[k]]
           + LinearPart(coeff_matrix, names, values, <<i, k + 1>>)

\* the position a site's equations give at the parameter values, in units of 1/Grid
site_position(equation_set, s, values) ==
  [i \in 1..3 |->
     LinearPart(equation_set.coeff_matrix_list[s], equation_set.param_names, values, <<i, 1>>)
     + equation_set.const_terms_list[s][i]]

\* the atoms  aflow --proto  writes for the designation: the sites of the equation
\* sets in label order (what test_get_equations_from_prototype checks), with the real
\* species substituted (ghost field orbit: the equation set the atom comes from)
proto_atoms(species, equation_sets, values) ==
  Flatten([e \in DOMAIN equation_sets |->
             [s \in DOMAIN equation_sets[e].coeff_matrix_list |->
                [symbol |-> species[equation_sets[e].species - 64],
                 pos |-> site_position(equation_sets[e], s, values),
                 orbit |-> e]]])

\* build_atoms_from_prototype: the atoms read back, counted and wrapped
build_atoms_from_prototype(species, prototype, values) ==
  LET atoms == proto_atoms(species, prototype.equation_sets, values)
      count == check_number_of_atoms(Len(atoms), prototype.label, TRUE)
  IN  IF count # "" THEN Raise(count) ELSE Return(wrap(atoms))

-----------------------------------------------------------------------------
(* solve_for_internal_params as a state machine *)
(*   START -> ALIGNED -> {SOLVED | EXHAUSTED}                                 *)

\* largest number of space-group operations the external tool lists
MaxOps == 2

\* values a free internal parameter of a designation may take, in units of 1/Grid
\* (Grid + 1 lies outside [0,1))
ParamValues == {1, 2, Grid + 1}

\* the external tool's answers: the label it re-detects, the origin shift it finds
\* (<<>> is None), the translation parts of the operations it lists
OtherSpaceGroup == <<50, 50, 49>>    \* "221"
DetectedLabels(nominal) ==
  { nominal,
    [nominal EXCEPT ![3] = OtherSpaceGroup],
    [nominal EXCEPT ![Len(nominal)] = <<97>>] }
OriginShifts == { <<>>, Zero3, <<Half, Half, Half>>, <<1, 0, 0>> }

\* variant: a comparison without a match is read as a match without origin shift
unmatched_as_unshifted(comparison_result) ==
  IF /\ comparison_result[1].has_structures_duplicate
     /\ comparison_result[1].structures_duplicate # <<>>
  THEN <<comparison_result[1].structures_duplicate[1].basis_transformation,
         comparison_result[1].structures_duplicate[1].rotation,
         comparison_result[1].structures_duplicate[1].origin_shift>>
  ELSE << <<>>, <<>>, <<0, 0, 0>> >>

\* get_basistransformation_rotation_originshift_from_atoms, given what
\* aflow --compare_materials  answered: the first entry of structures_duplicate, or
\* (None, None, None) when the key is missing or the list is empty (<<>> is None)
get_basistransformation_rotation_originshift_from_atoms(comparison_result) ==
  IF /\ comparison_result[1].has_structures_duplicate
     /\ comparison_result[1].structures_duplicate # <<>>
  THEN <<comparison_result[1].structures_duplicate[1].basis_transformation,
         comparison_result[1].structures_duplicate[1].rotation,
         comparison_result[1].structures_duplicate[1].origin_shift>>
  ELSE << <<>>, <<>>, <<>> >>

\* what the comparison may answer: no key structures_duplicate, an empty list of
\* duplicates, or one duplicate with an origin shift
ComparisonResults ==
  { << [has_structures_duplicate |-> FALSE, structures_duplicate |-> <<>>] >>,
    << [has_structures_duplicate |-> TRUE, structures_duplicate |-> <<>>] >> }
  \cup
  { << [has_structures_duplicate |-> TRUE,
        structures_duplicate |->
          << [basis_transformation |-> << <<1, 0, 0>>, <<0, 1, 0>>, <<0, 0, 1>> >>,
              rotation |-> << <<1, 0, 0>>, <<0, 1, 0>>, <<0, 0, 1>> >>,
              origin_shift |-> s] >>] >> : s \in OriginShifts \ {<<>>} }

OpTranslations == { Zero3, <<Half, Half, Half>>, <<Grid, 0, 0>> }
OpLists == UNION { [1..n -> OpTranslations] : n \in 1..MaxOps }

\* Wyckoff letters the symmetry finder may report for a built structure: b c i
SolverLetters == {98, 99, 105}

\* the datasets the symmetry finder may report for a structure built from a
\* prototype: a failure, or its true orbits (each represented by its first atom) with
\* any of the letters for each orbit and either space-group number
OrbitIds(atoms) == {atoms[i].orbit : i \in DOMAIN atoms}
Representative(atoms, o) ==
  CHOOSE i \in DOMAIN atoms :
    atoms[i].orbit = o /\ \A j \in DOMAIN atoms : atoms[j].orbit = o => i <= j
Datasets(atoms, label) ==
  { [ok |-> FALSE, number |-> 0, crystallographic_orbits |-> <<>>, wyckoffs |-> <<>>] }
  \cup
  { [ok |-> TRUE, number |-> number,
     crystallographic_orbits |-> [i \in DOMAIN atoms |-> Representative(atoms, atoms[i].orbit)],
     wyckoffs |-> [i \in DOMAIN atoms |-> letters[atoms[i].orbit]]] :
    number \in DetectedNumbers(label),
    letters \in [OrbitIds(atoms) -> SolverLetters] }

\* what the solver holds before the loop: nothing aligned, no shift tried (ext, aligned,
\* tried, ds, matching and position_set_list record the run for the properties)
not_aligned(ext) ==
  [atoms_shifted |-> <<>>, internal_cartesian_translations |-> <<>>, idx |-> 1,
   ext |-> [tool_ok |-> ext.tool_ok, label_detected |-> ext.label_detected,
            comparison_result |-> ext.comparison_result,
            origin_shift |-> ext.origin_shift],
   aligned |-> FALSE, tried |-> 0, ds |-> <<>>,
   matching |-> <<>>, position_set_list |-> <<>>]

\* lines 1194-1213: unequal labels return None; otherwise the origin shift is undone and
\* the internal translations are listed
align(call, ext, equivalent) ==
  IF equivalent \notin {"True", "False"}
  THEN [pc |-> "EXHAUSTED", out |-> Raise(equivalent), work |-> not_aligned(ext)]
  ELSE IF equivalent = "False"
  THEN [pc |-> "EXHAUSTED", out |-> ReturnNone, work |-> not_aligned(ext)]
  ELSE IF ext.origin_shift = <<>>
  THEN [pc |-> "EXHAUSTED", out |-> Raise("failedToMatchException"),
        work |-> not_aligned(ext)]
  ELSE [pc |-> "ALIGNED", out |-> Pending,
        work |-> [not_aligned(ext) EXCEPT
          !.aligned = TRUE,
          !.atoms_shifted =
             translate(call.atoms, [i \in 1..3 |-> -ext.origin_shift[i]]),
          !.internal_cartesian_translations = unique_translations(ext.ops, <<>>)]]

\* lines 1184-1213: re-detection, label comparison, alignment.  ext is what the external
\* tool answers: tool_ok (FALSE: a command of it failed), label_detected, origin_shift
\* (<<>> is None), ops
solve_start(call, ext) ==
  IF ~ext.tool_ok
  THEN [pc |-> "EXHAUSTED", out |-> Raise("RuntimeError"), work |-> not_aligned(ext)]
  ELSE align(call, ext,
             prototype_labels_are_equivalent(call.nominal_prototype_label,
                                             ext.label_detected, FALSE))

\* variant: the search goes on with the same internal translation
conclude_in_place(w, position_set_list, st) ==
  LET done == [w EXCEPT !.matching = st, !.position_set_list = position_set_list]
  IN  IF \A i \in DOMAIN st.matched : st.matched[i]
      THEN [pc |-> "SOLVED", out |-> Return(sorted_values(st)), work |-> done]
      ELSE [pc |-> "ALIGNED", out |-> Pending, work |-> done]

\* lines 1268-1269: all position sets matched -> return the sorted values; otherwise
\* go on with the next internal translation
conclude(w, position_set_list, st) ==
  LET done == [w EXCEPT !.matching = st, !.position_set_list = position_set_list]
  IN  IF st.assertion
      THEN [pc |-> "EXHAUSTED", out |-> Raise("AssertionError"), work |-> done]
      ELSE IF \A i \in DOMAIN st.matched : st.matched[i]
      THEN [pc |-> "SOLVED", out |-> Return(sorted_values(st)), work |-> done]
      ELSE [pc |-> "ALIGNED", out |-> Pending, work |-> [done EXCEPT !.idx = @ + 1]]

\* lines 1222-1266 for the orbits found in the shifted structure
match_orbits(call, w, grouped, species_map) ==
  IF grouped.kind = "raise"
  THEN [pc |-> "EXHAUSTED", out |-> grouped, work |-> w]
  ELSE IF Len(grouped.value) # Len(call.equation_set_list)
  THEN [pc |-> "EXHAUSTED", out |-> Raise("inconsistentWyckoffException"), work |-> w]
  ELSE conclude(w, grouped.value,
         match_all([free_params_dict |-> <<>>, keys |-> <<>>,
                    matched |-> [i \in DOMAIN grouped.value |-> FALSE],
                    assertion |-> FALSE, pairs |-> <<>>],
                   1, call.equation_set_list, grouped.value, species_map,
                   get_space_group_number_from_prototype(call.nominal_prototype_label)))

\* lines 1217-1221: the translated and wrapped structure is grouped into orbits
try_shifted(call, w, ds, hash) ==
  match_orbits(call, w,
               group_positions_by_wyckoff(w.atoms_shifted, call.nominal_prototype_label,
                                          ds, hash),
               get_real_to_virtual_species_map(w.atoms_shifted, hash))

\* one iteration of the loop over internal translations (lines 1215-1269); ds is what
\* the symmetry finder reports for the shifted structure
solve_iteration(call, w, ds, hash) ==
  try_shifted(call,
    [w EXCEPT !.atoms_shifted =
                 wrap(translate(@, w.internal_cartesian_translations[w.idx])),
              !.tried = @ + 1, !.ds = ds,
              !.matching = <<>>, !.position_set_list = <<>>],
    ds, hash)

\* variant: exhaustion reported as an exception
give_up_raising == Raise("failedToMatchException")

\* lines 1271-1272: the failure is logged and None returned
give_up == ReturnNone

\* the designations handed to the builder: parameter values for which no two atoms
\* coincide (the external tool rejects the others)
Designations ==
  { d \in UNION { [proto : {p}, values : [ParamNamesOf(Prototypes[p].equation_sets) -> ParamValues]]
                  : p \in DOMAIN Prototypes } :
      LET b == build_atoms_from_prototype(Prototypes[d.proto].species,
                                          Prototypes[d.proto], d.values)
      IN  /\ b.kind = "return"
          /\ \A i, j \in DOMAIN b.value : i # j => b.value[i].pos # b.value[j].pos }

SolveCall(d, atoms) ==
  [op |-> "solve", proto |-> d.proto, values |-> d.values, atoms |-> atoms,
   equation_set_list |-> Prototypes[d.proto].equation_sets,
   nominal_prototype_label |-> Prototypes[d.proto].label]

Init ==
  /\ pc = "START"
  /\ out = Pending
  /\ replay = <<>>
  /\ work = <<>>
  /\ \E d \in Designations :
       inp = SolveCall(d, build_atoms_from_prototype(Prototypes[d.proto].species,
                                                     Prototypes[d.proto], d.values).value)

\* the attempt goes on as run says
Becomes(run) == pc' = run.pc /\ out' = run.out /\ work' = run.work

\* START: re-detect the designation, compare the labels, align
Align ==
  /\ pc = "START"
  /\ \E tool_ok \in BOOLEAN, label_detected \in DetectedLabels(inp.nominal_prototype_label),
        comparison_result \in ComparisonResults, ops \in OpLists :
       Becomes(solve_start(inp,
         [tool_ok |-> tool_ok, label_detected |-> label_detected,
          comparison_result |-> comparison_result,
          origin_shift |->
            get_basistransformation_rotation_originshift_from_atoms(comparison_result)[3],
          ops |-> ops]))
  /\ UNCHANGED <<inp, replay>>

\* ALIGNED: apply the next internal translation and try to match the orbits
TryShift ==
  /\ pc = "ALIGNED"
  /\ work.idx <= Len(work.internal_cartesian_translations)
  /\ \E ds \in Datasets(work.atoms_shifted, inp.nominal_prototype_label) :
       Becomes(solve_iteration(inp, work, ds, IdentityHash))
  /\ UNCHANGED <<inp, replay>>

\* ALIGNED, every translation tried: log the failure and return None
Exhaust ==
  /\ pc = "ALIGNED"
  /\ work.idx > Len(work.internal_cartesian_translations)
  /\ pc' = "EXHAUSTED"
  /\ out' = give_up
  /\ UNCHANGED <<inp, work, replay>>

Next == Align \/ TryShift \/ Exhaust

Spec == Init /\ [][Next]_vars

\* the interpreter keeps running the call until it returns or raises
FairSpec == Spec /\ WF_vars(Next)

-----------------------------------------------------------------------------
(* Properties of the atom count check and of orbit extraction (SpecExtract) *)

Checked == pc = "done" /\ inp.op = "check"
Grouped == pc = "done" /\ inp.op = "group"

\* lattice points per conventional cell for the requested cell type
LatticeDivisor(centering, primitive_cell) ==
  IF ~primitive_cell THEN 1
  ELSE CASE centering = 80 -> 1 [] centering = 67 -> 2 [] centering = 73 -> 2
         [] centering = 70 -> 4 [] centering = 82 -> 3

RaisedNumAtoms == out = Raise("incorrectNumAtomsException")

\* C10 as stated: check_number_of_atoms raises incorrectNumAtomsException exactly when
\* the atom count differs from the Pearson count divided by the lattice-point divisor,
\* for every centering letter including R
C10_AsStated ==
  Checked =>
    /\ RaisedNumAtoms <=>
         Len(inp.atoms) * LatticeDivisor(inp.centering, inp.primitive_cell) # inp.count
    /\ ~RaisedNumAtoms => out = Return(<<>>)

\* C10: check_number_of_atoms raises incorrectNumAtomsException exactly when the atom
\* count differs from the Pearson count, tripled when the centering letter is R,
\* divided by the lattice-point divisor of the requested cell type; otherwise it
\* returns normally
C10_CountCheck ==
  Checked =>
    /\ RaisedNumAtoms <=>
         Len(inp.atoms) * LatticeDivisor(inp.centering, inp.primitive_cell)
           # inp.count * (IF inp.centering = 82 THEN 3 ELSE 1)
    /\ ~RaisedNumAtoms => out = Return(<<>>)

\* a primitive rhombohedral cell of 3 atoms passes against "hR3"
C10_Witness ==
  /\ Checked /\ inp.centering = 82 /\ inp.count = 3
  /\ inp.primitive_cell /\ Len(inp.atoms) = 3 /\ out = Return(<<>>)

\* letters l1 and l2 lie in one Wyckoff set of space group sg
SameSet(l1, l2, sg) == \E S \in Range(wyckoff_sets[sg]) : l1 \in S /\ l2 \in S

\* the letters of the label's Wyckoff sections, expanded and concatenated
LabelLetters(label) == Flatten(get_wyckoff_lists_from_prototype(label).val)

\* p lists the orbits the structure was made from in canonical order: by species,
\* then by letter
Canonical(blocks, p) ==
  /\ p \in [DOMAIN blocks -> DOMAIN blocks]
  /\ \A i, j \in DOMAIN blocks : i # j => p[i] # p[j]
  /\ \A i, j \in DOMAIN blocks :
       i < j => \/ blocks[p[i]].species < blocks[p[j]].species
                \/ /\ blocks[p[i]].species = blocks[p[j]].species
                   /\ blocks[p[i]].letter <= blocks[p[j]].letter

\* the label is given and detection, atom count, space group, species count and orbit
\* count agree with it
CountsAgree ==
  /\ Grouped /\ inp.prototype_label # <<>> /\ inp.ds.ok
  /\ check_number_of_atoms(Len(inp.atoms), inp.prototype_label, TRUE) = ""
  /\ inp.ds.number = get_space_group_number_from_prototype(inp.prototype_label)
  /\ Cardinality({inp.blocks[k].species : k \in DOMAIN inp.blocks})
       = Len(inp.prototype_label) - 3
  /\ Len(inp.blocks) = Len(LabelLetters(inp.prototype_label))

\* every orbit in canonical order carries a letter of the same set as the label's
LettersAgree ==
  \E p \in [DOMAIN inp.blocks -> DOMAIN inp.blocks] :
    /\ Canonical(inp.blocks, p)
    /\ \A i \in DOMAIN inp.blocks :
         SameSet(inp.blocks[p[i]].letter, LabelLetters(inp.prototype_label)[i],
                 inp.ds.number)

\* C6: when the counts agree, group_positions_by_wyckoff returns the orbit list, in
\* canonical order, if and only if each orbit's letter and the label's letter at the same
\* index are in the same Wyckoff set; otherwise it raises inconsistentWyckoffException
C6_LetterCheck ==
  CountsAgree =>
    IF LettersAgree
    THEN /\ out.kind = "return"
         /\ \E p \in [DOMAIN inp.blocks -> DOMAIN inp.blocks] :
              /\ Canonical(inp.blocks, p)
              /\ \A i \in DOMAIN inp.blocks :
                   /\ out.value[i].species = inp.blocks[p[i]].species
                   /\ out.value[i].wyckoff_letter = inp.blocks[p[i]].letter
                   /\ Len(out.value[i].frac_position_list) = inp.blocks[p[i]].mult
         /\ Len(out.value) = Len(inp.blocks)
    ELSE out = Raise("inconsistentWyckoffException")

\* an accepted structure one of whose orbits carries a letter other than the label's
C6_Witness ==
  /\ CountsAgree /\ out.kind = "return"
  /\ \E i \in DOMAIN out.value :
       out.value[i].wyckoff_letter # LabelLetters(inp.prototype_label)[i]

\* the dataset with the letter of orbit k replaced by letter
Relettered(ds, blocks, k, letter) ==
  [ds EXCEPT !.wyckoffs =
     [i \in DOMAIN ds.wyckoffs |-> IF BlockOf(blocks, i, 1) = k THEN letter ELSE @[i]]]

\* C5: replacing the detected letter of an orbit by another letter of the same Wyckoff
\* set does not change whether group_positions_by_wyckoff accepts the structure
C5_SetInvariance ==
  (Grouped /\ inp.prototype_label # <<>>) =>
    \A k \in DOMAIN inp.blocks, letter \in DetectedLetters :
      SameSet(inp.blocks[k].letter, letter, inp.ds.number) =>
        (group_positions_by_wyckoff(inp.atoms, inp.prototype_label,
           Relettered(inp.ds, inp.blocks, k, letter), IdentityHash).kind = "return")
        <=> (out.kind = "return")

-----------------------------------------------------------------------------
(* Properties of the parameter solver (Spec, FairSpec) *)

Final == pc \in {"SOLVED", "EXHAUSTED"}

NominalGroup == get_space_group_number_from_prototype(inp.nominal_prototype_label)

\* the virtual species of a real species: its rank among the symbols of the structure
VirtualOf(atoms, symbol) ==
  64 + Cardinality({atoms[i].symbol : i \in {j \in DOMAIN atoms : atoms[j].symbol <= symbol}})

\* C3: solve_for_internal_params returns a parameter list only when, for the shift being
\* tried, the equation sets are paired one-to-one with all the orbits, each with an
\* orbit of its virtual species and of a letter in the same Wyckoff set; and nothing
\* further is tried after that
C3_FullMatch ==
  pc = "SOLVED" =>
    LET pairs == work.matching.pairs
        orbits == work.position_set_list
        eqs == inp.equation_set_list
    IN  /\ out.kind = "return"
        /\ Len(pairs) = Len(eqs)
        /\ \A e \in DOMAIN eqs : pairs[e].set \in DOMAIN orbits
        /\ \A e, f \in DOMAIN eqs : e # f => pairs[e].set # pairs[f].set
        /\ \A o \in DOMAIN orbits : \E e \in DOMAIN eqs : pairs[e].set = o
        /\ \A e \in DOMAIN eqs :
             /\ VirtualOf(work.atoms_shifted, orbits[pairs[e].set].species) = eqs[e].species
             /\ SameSet(eqs[e].wyckoff_letter, orbits[pairs[e].set].wyckoff_letter,
                        NominalGroup)
        /\ work.tried = work.idx
        /\ ~ENABLED Next

\* a full match of two equation sets, one with an orbit whose letter was shuffled
C3_Witness ==
  /\ pc = "SOLVED" /\ Len(inp.equation_set_list) = 2
  /\ \E e \in DOMAIN inp.equation_set_list :
       work.position_set_list[work.matching.pairs[e].set].wyckoff_letter
         # inp.equation_set_list[e].wyckoff_letter

\* the external tool re-detected a label of another space group
RedetectedOtherGroup ==
  /\ Final /\ ~work.aligned /\ work.ext.tool_ok
  /\ get_space_group_number_from_prototype(work.ext.label_detected) # NominalGroup

\* the symmetry finder reported another space group for the shifted structure
FoundOtherGroup ==
  /\ pc # "START" /\ work.aligned /\ work.tried > 0
  /\ work.ds.ok /\ work.ds.number # NominalGroup

ShiftsExhausted ==
  /\ pc = "EXHAUSTED" /\ work.aligned
  /\ work.idx > Len(work.internal_cartesian_translations)

OrderedStep ==
  /\ pc \in {"START", "ALIGNED"}
  /\ pc = "START" =>
       /\ pc' \in {"ALIGNED", "EXHAUSTED"}
       /\ work'.tried = 0 /\ work'.idx = 1
  /\ pc = "ALIGNED" =>
       /\ pc' \in {"ALIGNED", "SOLVED", "EXHAUSTED"}
       /\ work.idx = work.tried + 1
       /\ \/ /\ work'.tried = work.tried + 1
             /\ work.idx <= Len(work.internal_cartesian_translations)
             /\ work'.internal_cartesian_translations = work.internal_cartesian_translations
             /\ IF pc' = "ALIGNED" THEN work'.idx = work.idx + 1 ELSE work'.idx = work.idx
          \/ /\ work' = work /\ pc' = "EXHAUSTED"
             /\ work.idx > Len(work.internal_cartesian_translations)

NameBefore(a, b) == a[2] < b[2] \/ (a[2] = b[2] /\ a[1] < b[1])
CanonicalNames(names) ==
  [k \in 1..Cardinality(names) |->
     CHOOSE n \in names : Cardinality({m \in names : NameBefore(m, n)}) = k - 1]

\* the internal parameter values of the designation the structure was built from
InputVector ==
  LET names == CanonicalNames(ParamNamesOf(inp.equation_set_list))
  IN  [k \in DOMAIN names |-> Rational(inp.values[names[k]], Grid)]

RECURSIVE Denominators(_)
Denominators(values) ==
  IF values = <<>> THEN 1 ELSE Head(values)[2] * Denominators(Tail(values))

RECURSIVE ScaledSum(_, _, _, _)
\* L * sum over the columns from k on of  column[i] * value
ScaledSum(columns, values, i, kL) ==
  IF kL[1] > Len(columns) THEN 0
  ELSE columns[kL[1]][i] * values[kL[1]][1] * (kL[2] \div values[kL[1]][2])
       + ScaledSum(columns, values, i, <<kL[1] + 1, kL[2]>>)

\* site s of the equation set, at the values (rationals, one per parameter of the set),
\* lies at frac_position modulo lattice translations
SiteAt(equation_set, s, values, frac_position) ==
  LET L == Grid * Denominators(values)
  IN  \A i \in 1..3 :
        (ScaledSum(equation_set.coeff_matrix_list[s], values, i, <<1, L>>)
         + (equation_set.const_terms_list[s][i] - frac_position[i]) * (L \div Grid)) % L = 0

\* the values of vector (in canonical order) that belong to the parameters of the set
ValuesOf(equation_set, vector, all_names) ==
  [k \in DOMAIN equation_set.param_names |->
     vector[CHOOSE j \in DOMAIN all_names : all_names[j] = equation_set.param_names[k]]]

\* vector reproduces the structure atoms: every equation set has a site that lies, at
\* these values, on an atom of its species
Reproduces(vector, equation_set_list, atoms) ==
  LET names == CanonicalNames(ParamNamesOf(equation_set_list))
  IN  /\ Len(vector) = Len(names)
      /\ \A k \in DOMAIN vector : vector[k][1] >= 0 /\ vector[k][1] < vector[k][2]
      /\ \A e \in DOMAIN equation_set_list :
           \E s \in DOMAIN equation_set_list[e].coeff_matrix_list, a \in DOMAIN atoms :
             /\ VirtualOf(atoms, atoms[a].symbol) = equation_set_list[e].species
             /\ SiteAt(equation_set_list[e], s,
                       ValuesOf(equation_set_list[e], vector, names), atoms[a].pos)

\* C1 as stated: resolving the structure built from a designation returns the
\* designation's internal parameter values
C1_AsStated == pc = "SOLVED" => out.value = InputVector

\* C1: when resolving the structure built from a designation returns a list, it holds
\* one value in [0,1) per internal parameter, in canonical order, and each equation set
\* has a site that lies at these values on an atom of its species in the aligned
\* structure
C1_Reproduces ==
  pc = "SOLVED" => Reproduces(out.value, inp.equation_set_list, work.atoms_shifted)

\* a resolution that returns other values than the designation's
C1_Witness == pc = "SOLVED" /\ out.value # InputVector /\ out.value # <<>>

-----------------------------------------------------------------------------
(* Two resolution attempts side by side (SpecReplay): the second one runs on the   *)
(* same call with another iteration order of sets, or on a rigidly translated and *)
(* permuted copy of the structure with the external answers moved along           *)

ReverseHash == [i \in DOMAIN IdentityHash |-> IdentityHash[Len(IdentityHash) + 1 - i]]

\* shuffle_atoms with the permutation named: the identity or the reversal
shuffle_atoms(atoms, perm) ==
  IF perm = "reverse" THEN [i \in DOMAIN atoms |-> atoms[Len(atoms) + 1 - i]] ELSE atoms

\* how the second attempt differs from the first
Variations ==
  { [hash |-> ReverseHash, perm |-> "identity", shift |-> Zero3],
    [hash |-> IdentityHash, perm |-> "reverse", shift |-> Zero3],
    [hash |-> IdentityHash, perm |-> "reverse", shift |-> <<1, 0, 0>>] }

\* the call of the second attempt
VariedCall(call, v) ==
  [call EXCEPT !.atoms = translate(shuffle_atoms(call.atoms, v.perm), v.shift)]

\* the external tool's answers for the moved copy: the origin shift moves along
VariedExt(ext, v) ==
  IF ext.origin_shift = <<>> THEN ext
  ELSE LET moved == [i \in 1..3 |-> ext.origin_shift[i] + v.shift[i]]
       IN  [ext EXCEPT
             !.origin_shift = moved,
             !.comparison_result =
                << [@[1] EXCEPT !.structures_duplicate =
                      << [@[1] EXCEPT !.origin_shift = moved] >>] >>]

\* the symmetry finder's dataset for the permuted copy: the same failure, or the same
\* number and the same letter for every orbit
VariedDataset(ds, atoms, varied_atoms) ==
  IF ~ds.ok THEN ds
  ELSE [ds EXCEPT
         !.crystallographic_orbits =
            [i \in DOMAIN varied_atoms |->
               Representative(varied_atoms, varied_atoms[i].orbit)],
         !.wyckoffs =
            [i \in DOMAIN varied_atoms |->
               ds.wyckoffs[Representative(atoms, varied_atoms[i].orbit)]]]

\* what an attempt does next: an iteration of the loop, the return after the loop, or
\* nothing once it has ended
attempt_step(call, run, ds, hash) ==
  IF run.pc # "ALIGNED" THEN run
  ELSE IF run.work.idx > Len(run.work.internal_cartesian_translations)
  THEN [run EXCEPT !.pc = "EXHAUSTED", !.out = give_up]
  ELSE solve_iteration(call, run.work, ds, hash)

InitReplay ==
  /\ pc = "START"
  /\ out = Pending
  /\ work = <<>>
  /\ \E d \in Designations :
       inp = SolveCall(d, build_atoms_from_prototype(Prototypes[d.proto].species,
                                                     Prototypes[d.proto], d.values).value)
  /\ \E v \in Variations :
       replay = [variation |-> v, pc |-> "START", out |-> Pending, work |-> <<>>]

\* the two attempts go on as first and second say
BothBecome(first, second) ==
  /\ pc' = first.pc /\ out' = first.out /\ work' = first.work
  /\ replay' = [replay EXCEPT !.pc = second.pc, !.out = second.out, !.work = second.work]

\* both attempts re-detect the designation, compare the labels and align
ReplayAlign ==
  /\ pc = "START"
  /\ \E tool_ok \in BOOLEAN, label_detected \in DetectedLabels(inp.nominal_prototype_label),
        comparison_result \in ComparisonResults, ops \in OpLists :
       LET ext == [tool_ok |-> tool_ok, label_detected |-> label_detected,
                   comparison_result |-> comparison_result,
                   origin_shift |->
                     get_basistransformation_rotation_originshift_from_atoms(
                       comparison_result)[3],
                   ops |-> ops]
       IN  BothBecome(solve_start(inp, ext),
                      solve_start(VariedCall(inp, replay.variation),
                                  VariedExt(ext, replay.variation)))
  /\ UNCHANGED inp

\* both attempts go on, with the same answer of the symmetry finder
ReplayStep ==
  /\ pc = "ALIGNED" \/ replay.pc = "ALIGNED"
  /\ \E ds \in Datasets(inp.atoms, inp.nominal_prototype_label) :
       BothBecome(
         attempt_step(inp, [pc |-> pc, out |-> out, work |-> work], ds, IdentityHash),
         attempt_step(VariedCall(inp, replay.variation),
                      [pc |-> replay.pc, out |-> replay.out, work |-> replay.work],
                      VariedDataset(ds, inp.atoms,
                                    VariedCall(inp, replay.variation).atoms),
                      replay.variation.hash))
  /\ UNCHANGED inp

NextReplay == ReplayAlign \/ ReplayStep

SpecReplay == InitReplay /\ [][NextReplay]_vars

-----------------------------------------------------------------------------
(* Properties of two attempts *)

SameInputs ==
  replay.variation.perm = "identity" /\ replay.variation.shift = Zero3

\* C9: two resolution attempts on the same structure, equation sets, label and external
\* answers go through the same states and end with the same outcome, whatever order
\* the unordered collections are iterated in
C9_Deterministic ==
  SameInputs => replay.pc = pc /\ replay.out = out /\ replay.work = work

\* both attempts solved a structure with two orbits of one species
C9_Witness ==
  /\ SameInputs /\ replay.variation.hash # IdentityHash
  /\ pc = "SOLVED" /\ replay.pc = "SOLVED" /\ replay.out = out
  /\ Len(inp.equation_set_list) = 2
  /\ inp.equation_set_list[1].species = inp.equation_set_list[2].species

BothEnded == Final /\ replay.pc \in {"SOLVED", "EXHAUSTED"}

\* C2 as stated: the moved and permuted copy resolves to the same parameter vector
C2_AsStated ==
  (BothEnded /\ replay.variation.hash = IdentityHash) => replay.out = out

RECURSIVE translated_by(_, _, _)
\* atoms after the first n translations of the list, applied one after the other
translated_by(atoms, translations, n) ==
  IF n = 0 THEN atoms
  ELSE translate(translated_by(atoms, translations, n - 1), translations[n])

\* the original structure in the frame the second attempt ended in
OriginalAligned ==
  LET v == replay.variation
      w == replay.work
  IN  translated_by(
        translate(inp.atoms, [i \in 1..3 |-> v.shift[i] - w.ext.origin_shift[i]]),
        w.internal_cartesian_translations, w.tried)

\* C2: when a rigidly translated and permuted copy resolves, the vector returned holds
\* one value in [0,1) per internal parameter and each equation set has a site that lies
\* at these values on an atom of its species of the original structure in the aligned
\* frame
C2_Reproduces ==
  (replay.pc = "SOLVED" /\ replay.variation.hash = IdentityHash) =>
    Reproduces(replay.out.value, inp.equation_set_list, OriginalAligned)

\* the copy resolves to another vector than the original
C2_Witness ==
  /\ pc = "SOLVED" /\ replay.pc = "SOLVED" /\ replay.variation.hash = IdentityHash
  /\ replay.out # out

-----------------------------------------------------------------------------
(* Equation builder *)

\* WYCKOFF_MULTIPLICITIES: row sg lists the multiplicity per conventional cell of the
\* Wyckoff letters a, b, c, ... of space group sg ("A" follows "z")
WYCKOFF_MULTIPLICITIES ==
  <<
   <<1>>,
   <<1, 1, 1, 1, 1, 1, 1, 1, 2>>,
   <<1, 1, 1, 1, 2>>,
   <<2>>,
   <<2, 2, 4>>,
   <<1, 1, 2>>,
   <<2>>,
   <<2, 4>>,
   <<4>>,
   <<1, 1, 1, 1, 1, 1, 1, 1, 2, 2, 2, 2, 2, 2, 4>>,
   <<2, 2, 2, 2, 2, 4>>,
   <<2, 2, 2, 2, 4, 4, 4, 4, 4, 8>>,
   <<2, 2, 2, 2, 2, 2, 4>>,
   <<2, 2, 2, 2, 4>>,
   <<4, 4, 4, 4, 4, 8>>,
   <<1, 1, 1, 1, 1, 1, 1, 1, 2, 2, 2, 2, 2, 2, 2, 2, 2, 2, 2, 2, 4>>,
   <<2, 2, 2, 2, 4>>,
   <<2, 2, 4>>,
   <<4>>,
   <<4, 4, 8>>,
   <<2, 2, 2, 2, 4, 4, 4, 4, 4, 4, 4, 8>>,
   <<4, 4, 4, 4, 8, 8, 8, 8, 8, 8, 16>>,
   <<2, 2, 2, 2, 4, 4, 4, 4, 4, 4, 8>>,
   <<4, 4, 4, 8>>,
   <<1, 1, 1, 1, 2, 2, 2, 2, 4>>,
   <<2, 2, 4>>,
   <<2, 2, 2, 2, 4>>,
   <<2, 2, 2, 4>>,
   <<4>>,
   <<2, 2, 4>>,
   <<2, 4>>,
   <<2, 2, 4>>,
   <<4>>,
   <<2, 2, 4>>,
   <<2, 2, 4, 4, 4, 8>>,
   <<4, 8>>,
   <<4, 4, 4, 8>>,
   <<2, 2, 4, 4, 4, 8>>,
   <<4, 4, 4, 8>>,
   <<4, 4, 8>>,
   <<4, 8>>,
   <<4, 8, 8, 8, 16>>,
   <<8, 16>>,
   <<2, 2, 4, 4, 8>>,
   <<4, 4, 8>>,
   <<4, 4, 8>>,
   <<1, 1, 1, 1, 1, 1, 1, 1, 2, 2, 2, 2, 2, 2, 2, 2, 2, 2, 2, 2, 4, 4, 4, 4, 4, 4, 8>>,
   <<2, 2, 2, 2, 4, 4, 4, 4, 4, 4, 4, 4, 8>>,
   <<2, 2, 2, 2, 2, 2, 2, 2, 4, 4, 4, 4, 4, 4, 4, 4, 4, 8>>,
   <<2, 2, 2, 2, 4, 4, 4, 4, 4, 4, 4, 4, 8>>,
   <<2, 2, 2, 2, 2, 2, 4, 4, 4, 4, 4, 8>>,
   <<4, 4, 4, 4, 8>>,
   <<2, 2, 2, 2, 4, 4, 4, 4, 8>>,
   <<4, 4, 4, 4, 4, 8>>,
   <<2, 2, 2, 2, 4, 4, 4, 4, 8>>,
   <<4, 4, 4, 4, 8>>,
   <<4, 4, 4, 4, 8>>,
   <<2, 2, 2, 2, 4, 4, 4, 8>>,
   <<2, 2, 4, 4, 4, 4, 8>>,
   <<4, 4, 4, 8>>,
   <<4, 4, 8>>,
   <<4, 4, 4, 8>>,
   <<4, 4, 4, 8, 8, 8, 8, 16>>,
   <<4, 4, 8, 8, 8, 8, 16>>,
   <<2, 2, 2, 2, 4, 4, 4, 4, 4, 4, 4, 4, 8, 8, 8, 8, 8, 16>>,
   <<4, 4, 4, 4, 4, 4, 8, 8, 8, 8, 8, 8, 16>>,
   <<4, 4, 4, 4, 4, 4, 4, 8, 8, 8, 8, 8, 8, 8, 16>>,
   <<4, 4, 8, 8, 8, 8, 8, 8, 16>>,
   <<4, 4, 8, 8, 8, 8, 8, 8, 8, 16, 16, 16, 16, 16, 16, 32>>,
   <<8, 8, 16, 16, 16, 16, 16, 32>>,
   <<2, 2, 2, 2, 4, 4, 4, 4, 4, 4, 8, 8, 8, 8, 16>>,
   <<4, 4, 4, 4, 8, 8, 8, 8, 8, 8, 16>>,
   <<8, 8, 8, 8, 8, 16>>,
   <<4, 4, 4, 4, 4, 8, 8, 8, 8, 16>>,
   <<1, 1, 2, 4>>,
   <<4>>,
   <<2, 2, 2, 4>>,
   <<4>>,
   <<2, 4, 8>>,
   <<4, 8>>,
   <<1, 1, 1, 1, 2, 2, 2, 4>>,
   <<2, 2, 2, 2, 4, 4, 8>>,
   <<1, 1, 1, 1, 2, 2, 2, 2, 4, 4, 4, 8>>,
   <<2, 2, 2, 2, 2, 2, 4, 4, 4, 4, 8>>,
   <<2, 2, 2, 4, 4, 4, 8>>,
   <<2, 2, 4, 4, 4, 4, 8>>,
   <<2, 2, 4, 4, 4, 8, 8, 8, 16>>,
   <<4, 4, 8, 8, 8, 16>>,
   <<1, 1, 1, 1, 2, 2, 2, 2, 4, 4, 4, 4, 4, 4, 4, 8>>,
   <<2, 2, 2, 4, 4, 4, 8>>,
   <<4, 4, 4, 8>>,
   <<4, 8>>,
   <<2, 2, 2, 2, 2, 2, 4, 4, 4, 4, 4, 4, 4, 4, 4, 8>>,
   <<2, 2, 4, 4, 4, 4, 8>>,
   <<4, 4, 4, 8>>,
   <<4, 8>>,
   <<2, 2, 4, 4, 4, 8, 8, 8, 8, 8, 16>>,
   <<4, 4, 8, 8, 8, 8, 16>>,
   <<1, 1, 2, 4, 4, 4, 8>>,
   <<2, 2, 4, 8>>,
   <<2, 2, 4, 4, 8>>,
   <<2, 4, 4, 8>>,
   <<2, 2, 4, 8>>,
   <<2, 4, 8>>,
   <<2, 2, 2, 4, 4, 8>>,
   <<4, 4, 8>>,
   <<2, 4, 8, 8, 16>>,
   <<4, 4, 8, 16>>,
   <<4, 8, 16>>,
   <<8, 16>>,
   <<1, 1, 1, 1, 2, 2, 2, 2, 4, 4, 4, 4, 4, 4, 8>>,
   <<2, 2, 2, 2, 2, 2, 4, 4, 4, 4, 4, 4, 4, 8>>,
   <<2, 2, 2, 4, 4, 8>>,
   <<2, 2, 4, 4, 8>>,
   <<1, 1, 1, 1, 2, 2, 2, 4, 4, 4, 4, 8>>,
   <<2, 2, 2, 2, 4, 4, 4, 4, 4, 8>>,
   <<2, 2, 2, 2, 4, 4, 4, 4, 8>>,
   <<2, 2, 2, 2, 4, 4, 4, 4, 8>>,
   <<2, 2, 2, 2, 4, 4, 8, 8, 8, 16>>,
   <<4, 4, 4, 4, 8, 8, 8, 8, 16>>,
   <<2, 2, 4, 4, 4, 8, 8, 8, 8, 16>>,
   <<4, 4, 8, 8, 16>>,
   <<1, 1, 1, 1, 2, 2, 2, 2, 4, 4, 4, 4, 4, 4, 4, 8, 8, 8, 8, 8, 16>>,
   <<2, 2, 2, 2, 4, 4, 4, 4, 8, 8, 8, 8, 8, 16>>,
   <<2, 2, 2, 2, 4, 4, 4, 4, 8, 8, 8, 8, 8, 16>>,
   <<2, 2, 4, 4, 4, 8, 8, 8, 8, 8, 16>>,
   <<2, 2, 2, 2, 4, 4, 4, 4, 8, 8, 8, 16>>,
   <<2, 2, 4, 4, 4, 8, 8, 8, 16>>,
   <<2, 2, 2, 4, 4, 4, 8, 8, 8, 8, 16>>,
   <<4, 4, 4, 8, 8, 8, 16>>,
   <<2, 2, 2, 2, 2, 2, 4, 4, 4, 4, 4, 4, 4, 8, 8, 8, 8, 16>>,
   <<2, 2, 2, 2, 4, 4, 4, 4, 4, 4, 8, 8, 8, 8, 8, 16>>,
   <<4, 4, 4, 4, 8, 8, 8, 8, 8, 8, 16>>,
   <<2, 2, 4, 4, 4, 4, 4, 8, 8, 8, 8, 8, 8, 16>>,
   <<4, 4, 4, 4, 8, 8, 8, 8, 16>>,
   <<2, 2, 4, 4, 4, 4, 4, 8, 8, 8, 16>>,
   <<2, 2, 4, 4, 8, 8, 8, 16>>,
   <<4, 4, 4, 4, 4, 8, 8, 8, 8, 16>>,
   <<2, 2, 4, 4, 4, 8, 8, 8, 8, 8, 16, 16, 16, 16, 32>>,
   <<4, 4, 4, 4, 8, 8, 8, 8, 16, 16, 16, 16, 32>>,
   <<4, 4, 8, 8, 8, 16, 16, 16, 32>>,
   <<8, 8, 16, 16, 16, 16, 32>>,
   <<1, 1, 1, 3>>,
   <<3>>,
   <<3>>,
   <<3, 9>>,
   <<1, 1, 2, 2, 3, 3, 6>>,
   <<3, 3, 6, 9, 9, 18>>,
   <<1, 1, 1, 1, 1, 1, 2, 2, 2, 3, 3, 6>>,
   <<1, 1, 2, 2, 3, 3, 6>>,
   <<3, 3, 6>>,
   <<3, 3, 6>>,
   <<3, 3, 6>>,
   <<3, 3, 6>>,
   <<3, 3, 6, 9, 9, 18>>,
   <<1, 1, 1, 3, 6>>,
   <<1, 2, 3, 6>>,
   <<2, 2, 2, 6>>,
   <<2, 2, 6>>,
   <<3, 9, 18>>,
   <<6, 18>>,
   <<1, 1, 2, 2, 2, 3, 3, 4, 6, 6, 6, 12>>,
   <<2, 2, 2, 2, 4, 4, 6, 6, 12>>,
   <<1, 1, 2, 2, 3, 3, 6, 6, 6, 12>>,
   <<2, 2, 4, 4, 6, 6, 12>>,
   <<3, 3, 6, 9, 9, 18, 18, 18, 36>>,
   <<6, 6, 12, 18, 18, 36>>,
   <<1, 2, 3, 6>>,
   <<6>>,
   <<6>>,
   <<3, 3, 6>>,
   <<3, 3, 6>>,
   <<2, 2, 6>>,
   <<1, 1, 1, 1, 1, 1, 2, 2, 2, 3, 3, 6>>,
   <<1, 1, 2, 2, 2, 3, 3, 4, 6, 6, 6, 12>>,
   <<2, 2, 2, 2, 4, 4, 6, 6, 12>>,
   <<1, 1, 2, 2, 2, 3, 3, 4, 6, 6, 6, 6, 6, 12>>,
   <<6, 6, 12>>,
   <<6, 6, 12>>,
   <<3, 3, 3, 3, 6, 6, 6, 6, 6, 6, 12>>,
   <<3, 3, 3, 3, 6, 6, 6, 6, 6, 6, 12>>,
   <<2, 2, 2, 2, 4, 4, 6, 6, 12>>,
   <<1, 2, 3, 6, 6, 12>>,
   <<2, 4, 6, 12>>,
   <<2, 4, 6, 12>>,
   <<2, 2, 6, 12>>,
   <<1, 1, 1, 1, 1, 1, 2, 2, 2, 3, 3, 6, 6, 6, 12>>,
   <<2, 2, 2, 2, 2, 2, 4, 4, 4, 6, 6, 12>>,
   <<1, 1, 2, 2, 2, 3, 3, 4, 6, 6, 6, 12>>,
   <<2, 2, 2, 2, 4, 4, 6, 6, 12>>,
   <<1, 1, 2, 2, 2, 3, 3, 4, 6, 6, 6, 6, 6, 12, 12, 12, 12, 24>>,
   <<2, 2, 4, 4, 4, 6, 6, 8, 12, 12, 12, 12, 24>>,
   <<2, 2, 4, 4, 4, 6, 6, 8, 12, 12, 12, 24>>,
   <<2, 2, 2, 2, 4, 4, 6, 6, 12, 12, 12, 24>>,
   <<1, 1, 3, 3, 4, 6, 6, 6, 6, 12>>,
   <<4, 4, 4, 4, 16, 24, 24, 48>>,
   <<2, 6, 8, 12, 12, 24>>,
   <<4, 12>>,
   <<8, 12, 24>>,
   <<1, 1, 3, 3, 6, 6, 6, 6, 8, 12, 12, 24>>,
   <<2, 4, 4, 6, 8, 12, 12, 24>>,
   <<4, 4, 8, 24, 24, 32, 48, 48, 96>>,
   <<8, 8, 16, 16, 32, 48, 96>>,
   <<2, 6, 8, 12, 12, 16, 24, 48>>,
   <<4, 4, 8, 24>>,
   <<8, 8, 16, 24, 48>>,
   <<1, 1, 3, 3, 6, 6, 8, 12, 12, 12, 24>>,
   <<2, 4, 4, 6, 6, 6, 8, 12, 12, 12, 12, 12, 24>>,
   <<4, 4, 8, 24, 24, 32, 48, 48, 48, 96>>,
   <<8, 8, 16, 16, 32, 48, 48, 96>>,
   <<2, 6, 8, 12, 12, 16, 24, 24, 24, 48>>,
   <<4, 4, 8, 12, 24>>,
   <<4, 4, 8, 12, 24>>,
   <<8, 8, 12, 12, 16, 24, 24, 24, 48>>,
   <<1, 1, 3, 3, 4, 6, 6, 12, 12, 24>>,
   <<4, 4, 4, 4, 16, 24, 24, 48, 96>>,
   <<2, 6, 8, 12, 12, 24, 24, 48>>,
   <<2, 6, 6, 6, 8, 12, 12, 12, 24>>,
   <<8, 8, 24, 24, 32, 48, 48, 96>>,
   <<12, 12, 16, 24, 48>>,
   <<1, 1, 3, 3, 6, 6, 8, 12, 12, 12, 24, 24, 24, 48>>,
   <<2, 6, 8, 12, 12, 16, 24, 24, 48>>,
   <<2, 6, 6, 6, 8, 12, 12, 12, 16, 24, 24, 48>>,
   <<2, 4, 4, 6, 8, 12, 12, 24, 24, 24, 24, 48>>,
   <<4, 4, 8, 24, 24, 32, 48, 48, 48, 96, 96, 192>>,
   <<8, 8, 24, 24, 48, 48, 64, 96, 96, 192>>,
   <<8, 8, 16, 16, 32, 48, 96, 96, 192>>,
   <<16, 32, 32, 48, 64, 96, 96, 192>>,
   <<2, 6, 8, 12, 12, 16, 24, 24, 48, 48, 48, 96>>,
   <<16, 16, 24, 24, 32, 48, 48, 96>>
  >>

\* the place of a Wyckoff letter in a row of WYCKOFF_MULTIPLICITIES
letter_index(wyckoff_letter) == IF wyckoff_letter = 65 THEN 27 ELSE wyckoff_letter - 96

\* whether WYCKOFF_MULTIPLICITIES[space_group_number][wyckoff_letter] is a key error
no_multiplicity(space_group_number, wyckoff_letter) ==
  \/ space_group_number \notin DOMAIN WYCKOFF_MULTIPLICITIES
  \/ letter_index(wyckoff_letter) \notin DOMAIN WYCKOFF_MULTIPLICITIES[space_group_number]

\* variant: the multiplicity per conventional cell is the run length
multiplicity_per_conventional_cell(prototype_label, wyckoff_letter) ==
  [num |-> WYCKOFF_MULTIPLICITIES[get_space_group_number_from_prototype(prototype_label)]
                                 [letter_index(wyckoff_letter)],
   den |-> 1]

\* multiplicity_per_primitive_cell, a quotient of floats: num / den
multiplicity_per_primitive_cell(prototype_label, wyckoff_letter) ==
  [num |-> WYCKOFF_MULTIPLICITIES[get_space_group_number_from_prototype(prototype_label)]
                                 [letter_index(wyckoff_letter)],
   den |-> get_centering_divisor_from_prototype(prototype_label)]

RECURSIVE read_run(_, _, _, _)
\* the loop over the lines of one Wyckoff position: coord_lines is what the iterator
\* still holds, n the lines still to read, run the lines read so far
read_run(coord_lines, n, run, wyckoff_letter) ==
  IF n = 0
    THEN [exc |-> "", rest |-> coord_lines,
          set |-> EqnSet(run[1].species, wyckoff_letter, run[1].free_symbols,
                         [j \in DOMAIN run |-> run[j].coeff_matrix],
                         [j \in DOMAIN run |-> run[j].const_terms])]
  ELSE IF coord_lines = <<>> THEN [exc |-> "StopIteration", rest |-> <<>>, set |-> <<>>]
  ELSE LET line == Head(coord_lines)
       IN  IF run # <<>> /\ line.species # run[1].species
             THEN [exc |-> "inconsistentWyckoffException", rest |-> <<>>, set |-> <<>>]
           ELSE IF run # <<>> /\ line.free_symbols # run[1].free_symbols
             THEN [exc |-> "inconsistentWyckoffException", rest |-> <<>>, set |-> <<>>]
           ELSE read_run(Tail(coord_lines), n - 1, Append(run, line), wyckoff_letter)

RECURSIVE read_sets(_, _, _, _)
\* the loop over wyckoff_joined_list: equation_sets is the list built so far
read_sets(prototype_label, wyckoff_joined_list, coord_lines, equation_sets) ==
  IF wyckoff_joined_list = <<>> THEN [exc |-> "", sets |-> equation_sets]
  ELSE LET wyckoff_letter == Head(wyckoff_joined_list)
       IN  IF \/ no_multiplicity(get_space_group_number_from_prototype(prototype_label),
                                 wyckoff_letter)
              \/ get_centering_from_prototype(prototype_label) \notin DOMAIN CENTERING_DIVISORS
             THEN [exc |-> "KeyError", sets |-> <<>>]
           ELSE LET m == multiplicity_per_primitive_cell(prototype_label, wyckoff_letter)
                IN  IF m.num % m.den # 0 THEN [exc |-> "AssertionError", sets |-> <<>>]
                    ELSE LET r == read_run(coord_lines, m.num \div m.den, <<>>,
                                           wyckoff_letter)
                         IN  IF r.exc # "" THEN [exc |-> r.exc, sets |-> <<>>]
                             ELSE read_sets(prototype_label, Tail(wyckoff_joined_list),
                                            r.rest, Append(equation_sets, r.set))

\* variant: the closing check is left out
species_change_unchecked(wyckoff_lists, equation_sets) == TRUE

\* the closing check: the species of the first set of a section differs from the
\* species of the set before it
species_change(wyckoff_lists, equation_sets) ==
  \A s \in DOMAIN wyckoff_lists :
    wyckoff_lists[s] # <<>> =>
      LET first == Len(Flatten(SubSeq(wyckoff_lists, 1, s - 1))) + 1
      IN  first > 1 => equation_sets[first].species # equation_sets[first - 1].species

\* AFLOW.get_equation_sets_from_prototype: coord_lines are the lines of the answer to
\* --equations_only after the seventh, each read as its species, the sorted names of
\* its free symbols, and the matrix and constant column of its three expressions
get_equation_sets_from_prototype(prototype_label, coord_lines) ==
  LET wyckoff_lists == get_wyckoff_lists_from_prototype(prototype_label)
  IN  IF wyckoff_lists.err THEN Raise("AssertionError")
      ELSE LET r == read_sets(prototype_label, Flatten(wyckoff_lists.val), coord_lines, <<>>)
           IN  IF r.exc # "" THEN Raise(r.exc)
               ELSE IF ~species_change(wyckoff_lists.val, r.sets)
                 THEN Raise("inconsistentWyckoffException")
               ELSE Return(r.sets)

-----------------------------------------------------------------------------
(* The equation builder as a call: bounded inputs *)

\* largest number of coordinate lines in an answer of the external tool
MaxLines == 5

EquationLabels ==
  { Label_A_cF4_225_a, Label_AB2_hR3_166_a_c, Label_AB_cF8_225_a_b, Label_A_tP4_112_ab,
    Label_A_mC8_12_2i, Label_A_aP2_2_i, Label_A_hR4_166_2c, Label_A_mC4_12_i,
    Label_A_cF4_221_a, Label_A_aP2_2_j, Label_A2B_aP3_2_ab_c }

\* what the expressions of a coordinate line may be: constants only, or multiples of x1
LineShapes == { [free_symbols |-> <<>>, coeff_matrix |-> <<>>],
                [free_symbols |-> <<x1>>, coeff_matrix |-> << <<1, 1, 1>> >>] }

\* line j of an answer: its constant terms (j, 0, 0) tell the lines apart
CoordLine(j, species, shape) ==
  [species |-> species, free_symbols |-> shape.free_symbols,
   coeff_matrix |-> shape.coeff_matrix, const_terms |-> <<j, 0, 0>>]

InitEquations ==
  /\ pc = "call"
  /\ out = Pending
  /\ work = <<>>
  /\ replay = <<>>
  /\ \E label \in EquationLabels, n \in 0..MaxLines :
       \E species \in [1..n -> {65, 66}], shape \in [1..n -> LineShapes] :
         inp = [op |-> "equations",
                prototype_label |-> label,
                coord_lines |-> [j \in 1..n |-> CoordLine(j, species[j], shape[j])]]

\* a call of AFLOW.get_equation_sets_from_prototype
GetEquationSets ==
  /\ pc = "call" /\ inp.op = "equations"
  /\ out' = get_equation_sets_from_prototype(inp.prototype_label, inp.coord_lines)
  /\ pc' = "done"
  /\ UNCHANGED <<inp, work, replay>>

NextEquations == GetEquationSets

SpecEquations == InitEquations /\ [][NextEquations]_vars

-----------------------------------------------------------------------------
(* Orientation confirmer *)
(* Lengths, angles and matrix entries are integers in units of 1e-5           *)

\* the number 1 in these units
One == 100000
\* atol = 1e-4 of the two np.allclose calls
atol == 10
\* 1 / rtol for the default rtol = 1e-5 of np.allclose
rtol_inverse == 100000

\* np.allclose(a, b, atol = 1e-4) for two arrays of one shape, listed entry by entry:
\* |a - b| <= atol + rtol * |b| for every entry; the left side is a whole number, so
\* the right side may be rounded down
allclose(a, b) ==
  \A i \in DOMAIN a : Abs(a[i] - b[i]) <= atol + (Abs(b[i]) \div rtol_inverse)

\* variant: the cells are not compared
cells_not_compared(reference_cell, test_cell) == TRUE

\* the test of the cell lengths and angles of the reference against the rebuilt cell
cells_agree(reference_cell, test_cell) == allclose(reference_cell, test_cell)

\* the loop over point_group_ops
rotation_in_point_group(cart_rot, point_group_ops) ==
  \E k \in DOMAIN point_group_ops : allclose(cart_rot, point_group_ops[k])

\* AFLOW.confirm_unrotated_prototype_designation. built is what
\* build_atoms_from_prototype does for the designation (an exception, or the lengths
\* and angles of the rebuilt cell), compared what the structure comparison answers
\* (an exception, no duplicate, or a Cartesian rotation), point_group what the point
\* group command answers for the reference (an exception or the 'Uc' of its operations)
confirm_unrotated_prototype_designation(reference_cell, built, compared, point_group) ==
  IF built.exc # "" THEN Raise(built.exc)
  ELSE IF ~cells_agree(reference_cell, built.cell) THEN Return(FALSE)
  ELSE IF compared.exc # "" THEN Raise(compared.exc)
  ELSE IF ~compared.found THEN Return(FALSE)
  ELSE IF point_group.exc # "" THEN Raise(point_group.exc)
  ELSE Return(rotation_in_point_group(compared.cart_rot, point_group.ops))

-----------------------------------------------------------------------------
(* The orientation confirmer as a call: bounded inputs *)

\* largest number of point group operations in an answer
MaxPointGroupOps == 2

\* a cubic reference cell of edge 4: three lengths and three angles
ReferenceCell == <<4 * One, 4 * One, 4 * One, 90 * One, 90 * One, 90 * One>>

\* rebuilt cells: the first edge off by 0, 14 (inside the tolerance 10 + 4), 15 and -15
EdgeOffsets == {0, 14, 15, -15}
RebuiltCell(d) == [ReferenceCell EXCEPT ![1] = @ + d]

\* 3 x 3 matrices, row after row
Identity3 == <<One, 0, 0, 0, One, 0, 0, 0, One>>
Inversion3 == <<-One, 0, 0, 0, -One, 0, 0, 0, -One>>
QuarterTurn3 == <<0, -One, 0, One, 0, 0, 0, 0, One>>
\* the identity with its first entry off by d
NearIdentity3(d) == [Identity3 EXCEPT ![1] = @ + d]

\* rotations the structure comparison may report; 11 is the largest offset np.allclose
\* accepts against an entry 1, 12 the smallest it rejects
ReportedRotations ==
  {Identity3, Inversion3, QuarterTurn3, NearIdentity3(-11), NearIdentity3(-12)}
PointGroupOps == {Identity3, Inversion3, QuarterTurn3}

BuildOutcomes ==
  [exc : {"tooSymmetricException", "incorrectNumAtomsException", "RuntimeError"},
   cell : {<<>>}]
    \cup {[exc |-> "", cell |-> RebuiltCell(d)] : d \in EdgeOffsets}

CompareOutcomes ==
  {[exc |-> "RuntimeError", found |-> FALSE, cart_rot |-> <<>>],
   [exc |-> "", found |-> FALSE, cart_rot |-> <<>>]}
    \cup {[exc |-> "", found |-> TRUE, cart_rot |-> r] : r \in ReportedRotations}

PointGroupOutcomes ==
  {[exc |-> "RuntimeError", ops |-> <<>>]}
    \cup {[exc |-> "", ops |-> ops] :
            ops \in UNION {[1..n -> PointGroupOps] : n \in 1..MaxPointGroupOps}}

InitConfirm ==
  /\ pc = "call"
  /\ out = Pending
  /\ work = <<>>
  /\ replay = <<>>
  /\ \E built \in BuildOutcomes, compared \in CompareOutcomes,
        point_group \in PointGroupOutcomes :
       inp = [op |-> "confirm", reference_cell |-> ReferenceCell, built |-> built,
              compared |-> compared, point_group |-> point_group]

\* a call of AFLOW.confirm_unrotated_prototype_designation
ConfirmUnrotated ==
  /\ pc = "call" /\ inp.op = "confirm"
  /\ out' = confirm_unrotated_prototype_designation(inp.reference_cell, inp.built,
                                                    inp.compared, inp.point_group)
  /\ pc' = "done"
  /\ UNCHANGED <<inp, work, replay>>

NextConfirm == ConfirmUnrotated

SpecConfirm == InitConfirm /\ [][NextConfirm]_vars

-----------------------------------------------------------------------------
(* Reading a label: the stoichiometric prefix, the Wyckoff sections and the atom *)
(* count, one call after the other; bounded inputs                              *)

\* longest stoichiometric prefix and longest Wyckoff section that are enumerated
MaxPrefix == 3
MaxSection == 4
\* most sections and most atoms of the labels whose section count varies
MaxSections == 3
MaxLabelAtoms == 2

\* all strings over chars of length lo..hi
Strings(chars, lo, hi) == UNION {[1..n -> chars] : n \in lo..hi}

\* A B 1 3 0 -
StoichChars == {65, 66, 49, 51, 48, 45}
\* a b 1 2 0 -
WyckoffChars == {97, 98, 49, 50, 48, 45}

\* "cF4", "225"
Pearson_cF4 == <<99, 70, 52>>
Number_225 == <<50, 50, 53>>

\* labels "<prefix>_cF4_225_a"
StoichLabels ==
  {<<prefix, Pearson_cF4, Number_225, <<97>>>> : prefix \in Strings(StoichChars, 1, MaxPrefix)}

\* labels "A_cF4_225_<section>", with the sections "2f" and "ef2h2kl" among them
WyckoffLabels ==
  {<<<<65>>, Pearson_cF4, Number_225, section>> :
     section \in Strings(WyckoffChars, 0, MaxSection)
                   \cup {<<50, 102>>, <<101, 102, 50, 104, 50, 107, 108>>}}

\* labels with prefix A, AB or A2B, Pearson symbol cF4, cF, cF0 or cP2, and up to
\* MaxSections sections "a"
SectionLabels ==
  {<<prefix, pearson, Number_225>> \o [k \in 1..n |-> <<97>>] :
     prefix \in {<<65>>, <<65, 66>>, <<65, 50, 66>>},
     pearson \in {Pearson_cF4, <<99, 70>>, <<99, 70, 48>>, <<99, 80, 50>>},
     n \in 0..MaxSections}

InitLabel ==
  /\ pc = "stoich"
  /\ out = Pending
  /\ work = <<>>
  /\ replay = <<>>
  /\ \/ \E label \in StoichLabels \cup WyckoffLabels :
          inp = [op |-> "label", prototype_label |-> label, natoms |-> 1]
     \/ \E label \in SectionLabels, natoms \in 0..MaxLabelAtoms :
          inp = [op |-> "label", prototype_label |-> label, natoms |-> natoms]

\* a call of get_stoich_reduced_list_from_prototype; work keeps what each call gave
GetStoichReducedList ==
  /\ pc = "stoich"
  /\ LET r == get_stoich_reduced_list_from_prototype(inp.prototype_label)
     IN  /\ work' = Append(work, r)
         /\ IF r.err # "" THEN pc' = "done" /\ out' = Raise(r.err)
            ELSE pc' = "wyckoff" /\ out' = out
  /\ UNCHANGED <<inp, replay>>

\* a call of get_wyckoff_lists_from_prototype
GetWyckoffLists ==
  /\ pc = "wyckoff"
  /\ LET r == get_wyckoff_lists_from_prototype(inp.prototype_label)
     IN  /\ work' = Append(work, r)
         /\ IF r.err THEN pc' = "done" /\ out' = Raise("AssertionError")
            ELSE pc' = "count" /\ out' = out
  /\ UNCHANGED <<inp, replay>>

\* a call of check_number_of_atoms for a primitive cell of inp.natoms atoms
CheckLabelCount ==
  /\ pc = "count"
  /\ LET r == check_number_of_atoms(inp.natoms, inp.prototype_label, TRUE)
     IN  /\ work' = Append(work, r)
         /\ out' = IF r = "" THEN Return(<<>>) ELSE Raise(r)
  /\ pc' = "done"
  /\ UNCHANGED <<inp, replay>>

NextLabel == GetStoichReducedList \/ GetWyckoffLists \/ CheckLabelCount

SpecLabel == InitLabel /\ [][NextLabel]_vars

-----------------------------------------------------------------------------
(* KIMTestDriver: property instances *)
(* work is the driver: property_instances is the list that _property_instances   *)
(* serializes, atoms is "None" or "given"; calls counts the invocations of       *)
(* __call__, created the creations, and edited tells whether an instance was     *)
(* created other than by _add_property_instance. An instance is its instance-id, *)
(* its property, the names of the keys written to it, and serial: the number of  *)
(* its creation and of the invocation that made it.                              *)

\* kim_property_create(instance_id, property_name, property_instances): the new
\* instance is appended and the list sorted by instance-id
kim_property_create(instance_id, property_name, property_instances, serial) ==
  LET appended == Append(property_instances,
                         [instance_id |-> instance_id, property_id |-> property_name,
                          keys |-> {}, serial |-> serial])
      s == StableSortBy([i \in DOMAIN appended |-> i],
                        [i \in DOMAIN appended |-> appended[i].instance_id])
  IN  [i \in DOMAIN appended |-> appended[s[i]]]

\* kim_property_modify(property_instances, instance_id, "key", name, ...): the key is
\* written to the instance that carries instance_id
kim_property_modify(property_instances, instance_id, name) ==
  [i \in DOMAIN property_instances |->
     IF property_instances[i].instance_id = instance_id
       THEN [property_instances[i] EXCEPT !.keys = @ \cup {name}]
       ELSE property_instances[i]]

\* new_instance_index of _add_property_instance
new_instance_index(property_instances) == Len(property_instances) + 1

\* variant: keys go to the first instance
first_instance_index(property_instances) == 1

\* current_instance_index of _add_key_to_current_property_instance
current_instance_index(property_instances) == Len(property_instances)

\* property names: in kim-properties, defined by an .edn file on the search paths,
\* defined nowhere
PropertyNames == {"atomic-mass", "atomic-mass0", "atomic-mass9"}
property_in_existing_properties(property_name) == property_name = "atomic-mass"
found_custom_property(property_name) == property_name = "atomic-mass0"

\* key names: a key of the property definitions and one that is in none
KeyNames == {"species", "colour"}
key_in_definition(name) == name = "species"

\* uncertainty_info: None, a standard key with a fitting value, a key that is not
\* standard, a value of another shape
UncertaintyInfos == {"None", "fitting", "not standard", "other shape"}

\* _add_property_instance as a step of the driver: the outcome and the list after it
add_property_instance(driver, property_name) ==
  LET index == new_instance_index(driver.property_instances)
  IN  IF \E i \in DOMAIN driver.property_instances :
            driver.property_instances[i].instance_id = index
        THEN [out |-> Raise("KIMTestDriverError"), driver |-> driver]
      ELSE IF /\ ~property_in_existing_properties(property_name)
              /\ ~found_custom_property(property_name)
        THEN [out |-> Raise("KIMTestDriverError"), driver |-> driver]
      ELSE [out |-> ReturnNone,
            driver |-> [driver EXCEPT
              !.property_instances =
                 kim_property_create(index, property_name, @,
                                     [n |-> driver.created + 1, call |-> driver.calls]),
              !.created = @ + 1]]

\* _add_key_to_current_property_instance
add_key_to_current_property_instance(driver, name, uncertainty_info) ==
  LET index == current_instance_index(driver.property_instances)
  IN  IF uncertainty_info \in {"not standard", "other shape"}
        THEN [out |-> Raise("KIMTestDriverError"), driver |-> driver]
      ELSE IF \A i \in DOMAIN driver.property_instances :
                driver.property_instances[i].instance_id # index
        THEN [out |-> Raise("KIMPropertyError"), driver |-> driver]
      ELSE IF ~key_in_definition(name)
        THEN [out |-> Raise("KIMPropertyError"), driver |-> driver]
      ELSE [out |-> ReturnNone,
            driver |-> [driver EXCEPT
              !.property_instances = kim_property_modify(@, index, name)]]

-----------------------------------------------------------------------------
(* The driver in use: __call__ runs _setup and then the steps of _calculate *)

\* most instances a driver holds, most instance-ids a test driver may write itself,
\* most invocations of __call__
MaxInstances == 3
MaxDirectId == 2
MaxCalls == 2

InitDriver ==
  /\ pc = "idle"
  /\ inp = [op |-> "__init__"]
  /\ out = Pending
  /\ work = [property_instances |-> <<>>, atoms |-> "None", calls |-> 0,
             created |-> 0, edited |-> FALSE]
  /\ replay = <<>>

\* __call__(atoms, optimize) up to the start of _calculate: _setup stores atoms and
\* raises when asked to optimize without them
Call ==
  /\ pc = "idle" /\ work.calls < MaxCalls
  /\ \E atoms \in {"None", "given"}, optimize \in BOOLEAN :
       /\ inp' = [op |-> "__call__"]
       /\ work' = [work EXCEPT !.atoms = atoms, !.calls = @ + 1]
       /\ IF optimize /\ atoms = "None"
            THEN pc' = "idle" /\ out' = Raise("KIMTestDriverError")
            ELSE pc' = "calculate" /\ out' = Pending
  /\ UNCHANGED replay

\* _calculate calls _add_property_instance; an exception ends the invocation
AddPropertyInstance ==
  /\ pc = "calculate" /\ Len(work.property_instances) < MaxInstances
  /\ \E property_name \in PropertyNames :
       LET r == add_property_instance(work, property_name)
       IN  /\ inp' = [op |-> "_add_property_instance"]
           /\ work' = r.driver
           /\ out' = r.out
           /\ pc' = IF r.out.kind = "raise" THEN "idle" ELSE "calculate"
  /\ UNCHANGED replay

\* _calculate calls _add_key_to_current_property_instance
AddKey ==
  /\ pc = "calculate"
  /\ \E name \in KeyNames, uncertainty_info \in UncertaintyInfos :
       LET r == add_key_to_current_property_instance(work, name, uncertainty_info)
       IN  /\ inp' = [op |-> "_add_key_to_current_property_instance"]
           /\ work' = r.driver
           /\ out' = r.out
           /\ pc' = IF r.out.kind = "raise" THEN "idle" ELSE "calculate"
  /\ UNCHANGED replay

\* _calculate edits _property_instances itself with kim_property_create
CreateDirectly ==
  /\ pc = "calculate" /\ Len(work.property_instances) < MaxInstances
  /\ \E instance_id \in 1..MaxDirectId :
       /\ \A i \in DOMAIN work.property_instances :
            work.property_instances[i].instance_id # instance_id
       /\ inp' = [op |-> "kim_property_create"]
       /\ work' = [work EXCEPT
            !.property_instances =
               kim_property_create(instance_id, "atomic-mass", @,
                                   [n |-> work.created + 1, call |-> work.calls]),
            !.created = @ + 1,
            !.edited = TRUE]
       /\ out' = ReturnNone
       /\ pc' = "calculate"
  /\ UNCHANGED replay

\* _calculate returns, and with it __call__
Calculated ==
  /\ pc = "calculate"
  /\ inp' = [op |-> "return"]
  /\ out' = ReturnNone
  /\ pc' = "idle"
  /\ UNCHANGED <<work, replay>>

NextDriver == Call \/ AddPropertyInstance \/ AddKey \/ CreateDirectly \/ Calculated

SpecDriver == InitDriver /\ [][NextDriver]_vars

-----------------------------------------------------------------------------
(* CrystalGenomeTestDriver._setup *)
(* An argument is "None" or "given"; parameter_values_angstrom is "None", "a"    *)
(* (one value) or "a and more". built is what build_atoms_from_prototype does    *)
(* and analysed what _update_crystal_genome_designation_from_atoms does: ""      *)
(* when it returns, else the exception                                           *)

\* KIMTestDriver._setup: storing atoms, and the minimization asked for by optimize
base_setup(atoms, optimize) ==
  IF optimize /\ atoms = "None" THEN "KIMTestDriverError" ELSE ""

\* (species is None) != (label is None) != (values is None): a chained comparison,
\* the conjunction of its two links
designation_check(stoichiometric_species, prototype_label, parameter_values_angstrom) ==
  /\ (stoichiometric_species = "None") # (prototype_label = "None")
  /\ (prototype_label = "None") # (parameter_values_angstrom = "None")

\* the branch for a designation without an Atoms object
setup_from_designation(args, built) ==
  IF args.optimize THEN Raise("KIMTestDriverError")
  ELSE IF args.parameter_values_angstrom = "None" THEN Raise("TypeError")
  ELSE IF args.prototype_label = "None" THEN Raise("TypeError")
  ELSE IF built # "" THEN Raise(built)
  ELSE ReturnNone

\* the branch for an Atoms object
setup_from_atoms(args, built, analysed) ==
  IF \/ args.stoichiometric_species # "None" \/ args.short_name # "None"
     \/ args.library_prototype_label # "None" \/ args.parameter_names # "None"
    THEN Raise("KIMTestDriverError")
  ELSE IF analysed # "" THEN Raise(analysed)
  ELSE IF args.rebuild_atoms /\ built # "" THEN Raise(built)
  ELSE ReturnNone

\* CrystalGenomeTestDriver._setup
cg_setup(args, built, analysed) ==
  IF base_setup(args.atoms, args.optimize) # ""
    THEN Raise(base_setup(args.atoms, args.optimize))
  ELSE IF designation_check(args.stoichiometric_species, args.prototype_label,
                            args.parameter_values_angstrom)
    THEN Raise("KIMTestDriverError")
  ELSE IF args.atoms # "None" THEN setup_from_atoms(args, built, analysed)
  ELSE IF args.stoichiometric_species # "None" THEN setup_from_designation(args, built)
  ELSE ReturnNone

Optional == {"None", "given"}

SetupArgs ==
  [atoms : Optional, optimize : BOOLEAN, stoichiometric_species : Optional,
   prototype_label : Optional, parameter_names : Optional,
   parameter_values_angstrom : {"None", "a", "a and more"},
   library_prototype_label : Optional, short_name : Optional, rebuild_atoms : BOOLEAN]

InitSetup ==
  /\ pc = "call"
  /\ out = Pending
  /\ work = <<>>
  /\ replay = <<>>
  /\ \E args \in SetupArgs, built \in {"", "tooSymmetricException"},
        analysed \in {"", "KIMTestDriverError"} :
       inp = [op |-> "_setup", args |-> args, built |-> built, analysed |-> analysed]

\* a call of CrystalGenomeTestDriver._setup
Setup ==
  /\ pc = "call" /\ inp.op = "_setup"
  /\ out' = cg_setup(inp.args, inp.built, inp.analysed)
  /\ pc' = "done"
  /\ UNCHANGED <<inp, work, replay>>

NextSetup == Setup

SpecSetup == InitSetup /\ [][NextSetup]_vars


-----------------------------------------------------------------------------
(* prototype_labels_are_equivalent as a call: bounded inputs *)

\* well-formed labels to compare: an enantiomorphic pair (76, 78), a group without
\* enantiomorph between them (77), cubic and triclinic labels
ComparedLabels ==
  { Label_A_tP4_76_a, Label_A_tP4_78_a, Label_A_tP4_77_d,
    Label_A_cF4_225_a, Label_A_cF4_221_a, Label_AB_cF8_225_a_b,
    Label_A_aP2_2_i, Label_A_aP2_2_ab, Label_A_mC4_12_i, Label_A_mC8_12_2i }

InitCompare ==
  /\ pc = "call"
  /\ out = Pending
  /\ work = <<>>
  /\ replay = <<>>
  /\ \E l1 \in ComparedLabels, l2 \in ComparedLabels, allow \in BOOLEAN :
       inp = [op |-> "compare", prototype_label_1 |-> l1, prototype_label_2 |-> l2,
              allow_enantiomorph |-> allow]

\* a call of prototype_labels_are_equivalent (allow_species_permutation left False)
CompareLabels ==
  /\ pc = "call" /\ inp.op = "compare"
  /\ LET r == prototype_labels_are_equivalent(inp.prototype_label_1,
                                              inp.prototype_label_2,
                                              inp.allow_enantiomorph)
     IN  out' = IF r \in {"True", "False"} THEN Return(r = "True") ELSE Raise(r)
  /\ pc' = "done"
  /\ UNCHANGED <<inp, work, replay>>

NextCompare == CompareLabels

SpecCompare == InitCompare /\ [][NextCompare]_vars

-----------------------------------------------------------------------------
(* Pearson families of the space groups *)

\* SPACE_GROUPS_FOR_EACH_PEARSON, its items in insertion order
SPACE_GROUPS_FOR_EACH_PEARSON == <<
  [pearson |-> "aP", space_groups |-> {1, 2}],
  [pearson |-> "mP", space_groups |-> {3, 4, 6, 7, 10, 11, 13, 14}],
  [pearson |-> "mC", space_groups |-> {5, 8, 9, 12, 15}],
  [pearson |-> "oP", space_groups |-> {6, 17, 18, 19, 25, 26, 27, 28, 29, 30, 31, 32, 33, 34, 47, 48, 49, 50, 51, 52, 53, 54, 55, 56, 57, 58, 59, 60, 61, 62}],
  [pearson |-> "oC", space_groups |-> {20, 21, 35, 36, 37, 38, 39, 40, 41, 63, 64, 65, 66, 67, 68}],
  [pearson |-> "oI", space_groups |-> {23, 24, 44, 45, 46, 71, 72, 73, 74}],
  [pearson |-> "oF", space_groups |-> {22, 42, 43, 69, 70}],
  [pearson |-> "tP", space_groups |-> {75, 76, 77, 78, 81, 83, 84, 85, 86, 89, 90, 91, 92, 93, 94, 95, 96, 99, 100, 101, 102, 103, 104, 105, 106, 111, 112, 113, 114, 115, 116, 117, 118, 123, 124, 125, 126, 127, 128, 129, 130, 131, 132, 133, 134, 135, 136, 137, 138}],
  [pearson |-> "tI", space_groups |-> {79, 80, 82, 87, 88, 97, 98, 107, 108, 109, 110, 119, 120, 121, 122, 139, 140, 141, 142}],
  [pearson |-> "hP", space_groups |-> {143, 144, 145, 147, 149, 150, 151, 152, 153, 154, 156, 157, 158, 159, 162, 163, 164, 165, 168, 169, 170, 171, 172, 173, 174, 175, 176, 177, 178, 179, 180, 181, 182, 183, 184, 185, 186, 187, 188, 189, 190, 191, 192, 193, 194}],
  [pearson |-> "hR", space_groups |-> {146, 148, 155, 160, 161, 166, 167}],
  [pearson |-> "cP", space_groups |-> {195, 198, 200, 201, 205, 207, 208, 212, 213, 215, 218, 221, 222, 223, 224}],
  [pearson |-> "cF", space_groups |-> {196, 202, 203, 209, 210, 216, 219, 225, 226, 227, 228}],
  [pearson |-> "cI", space_groups |-> {197, 199, 204, 206, 211, 214, 217, 220, 229, 230}]
>>

A_CENTERED_ORTHORHOMBIC_GROUPS == {38, 39, 40, 41}

\* the items of a dictionary in the opposite iteration order
reversed_items(items) == [i \in DOMAIN items |-> items[Len(items) + 1 - i]]

\* get_pearson_from_space_group(sgnum), the dictionary being iterated as items lists
\* it: the first family that holds sgnum, or "None" when the loop ends without one
get_pearson_from_space_group(sgnum, items) ==
  LET holding == { k \in DOMAIN items : sgnum \in items[k].space_groups }
  IN  IF holding = {} THEN "None"
      ELSE items[CHOOSE k \in holding : \A l \in holding : k <= l].pearson

\* get_formal_pearson_from_space_group(sgnum): "oA" for the A-centered groups
get_formal_pearson_from_space_group(sgnum, items) ==
  LET pearson == get_pearson_from_space_group(sgnum, items)
  IN  IF pearson = "oC" /\ sgnum \in A_CENTERED_ORTHORHOMBIC_GROUPS THEN "oA"
      ELSE pearson

\* the calls: every space-group number, either function, either iteration order
InitPearson ==
  /\ pc = "call"
  /\ out = Pending
  /\ work = <<>>
  /\ replay = <<>>
  /\ \E sgnum \in 1..230, formal \in BOOLEAN, order \in {"insertion", "reversed"} :
       inp = [op |-> IF formal THEN "get_formal_pearson_from_space_group"
                     ELSE "get_pearson_from_space_group",
              sgnum |-> sgnum, order |-> order]

\* the dictionary as the call iterates it
ItemsOf(order) ==
  IF order = "reversed" THEN reversed_items(SPACE_GROUPS_FOR_EACH_PEARSON)
  ELSE SPACE_GROUPS_FOR_EACH_PEARSON

\* what a function that returned the string, or fell off its end, hands back
Returned(pearson) == IF pearson = "None" THEN ReturnNone ELSE Return(pearson)

\* a call of get_pearson_from_space_group
GetPearson ==
  /\ pc = "call" /\ inp.op = "get_pearson_from_space_group"
  /\ out' = Returned(get_pearson_from_space_group(inp.sgnum, ItemsOf(inp.order)))
  /\ pc' = "done"
  /\ UNCHANGED <<inp, work, replay>>

\* a call of get_formal_pearson_from_space_group
GetFormalPearson ==
  /\ pc = "call" /\ inp.op = "get_formal_pearson_from_space_group"
  /\ out' = Returned(get_formal_pearson_from_space_group(inp.sgnum, ItemsOf(inp.order)))
  /\ pc' = "done"
  /\ UNCHANGED <<inp, work, replay>>

NextPearson == GetPearson \/ GetFormalPearson

SpecPearson == InitPearson /\ [][NextPearson]_vars

-----------------------------------------------------------------------------
(* The caller's structure and the copies made inside a call.  The structures   *)
(* live in a heap of two objects: the one the caller handed in, and the copy   *)
(* a call may make; a call changes a structure through the name it holds       *)

\* variant: no copy is made, the new name denotes the caller's object
same_object(heap, name) == [heap |-> heap, name |-> name]

\* atoms.copy(): a new object with the same atoms and cell
copy(heap, name) == [heap |-> [heap EXCEPT !.copy = heap[name]], name |-> "copy"]

\* set_cell(Cell.fromcellpar(cell_lengths_and_angles), scale_atoms=True) on the object
\* called name: the cell is put in standard form with the lengths and angles given,
\* the fractional positions stay
set_cell_fromcellpar(heap, name, cell_lengths_and_angles) ==
  [heap EXCEPT ![name].cell = [cellpar |-> cell_lengths_and_angles,
                               standard_form |-> TRUE]]

\* lines 1207-1208 of solve_for_internal_params on the heap: atoms_shifted is a copy
\* of atoms, and the origin shift is undone on atoms_shifted
shifted_copy(heap, aligned_atoms) ==
  LET c == copy(heap, "caller")
  IN  [heap |-> [c.heap EXCEPT ![c.name].atoms = aligned_atoms], atoms_shifted |-> c.name]

\* lines 1302-1310 of confirm_unrotated_prototype_designation on the heap: nothing is
\* touched when the build fails or the cells disagree; otherwise reference_atoms_copy
\* is made and its cell reset
reset_copy(heap, built) ==
  IF built.exc # "" \/ ~cells_agree(heap.caller.cell.cellpar, built.cell)
  THEN [heap |-> heap, reference_atoms_copy |-> "None"]
  ELSE LET c == copy(heap, "caller")
       IN  [heap |-> set_cell_fromcellpar(c.heap, c.name, heap.caller.cell.cellpar),
            reference_atoms_copy |-> c.name]

\* the caller's structure of a call
CallerStructure(call) ==
  IF call.op = "solve"
  THEN [atoms |-> call.atoms, cell |-> [cellpar |-> ReferenceCell, standard_form |-> TRUE]]
  ELSE call.reference_atoms

InitFrame ==
  /\ out = Pending
  /\ work = <<>>
  /\ \/ /\ pc = "START"
        /\ \E d \in Designations :
             inp = SolveCall(d, build_atoms_from_prototype(Prototypes[d.proto].species,
                                                           Prototypes[d.proto], d.values).value)
     \/ /\ pc = "call"
        /\ \E built \in BuildOutcomes, compared \in CompareOutcomes,
              point_group \in PointGroupOutcomes, standard_form \in BOOLEAN :
             inp = [op |-> "confirm",
                    reference_atoms |->
                      [atoms |-> build_atoms_from_prototype(
                                   Prototypes[1].species, Prototypes[1], <<>>).value,
                       cell |-> [cellpar |-> ReferenceCell,
                                 standard_form |-> standard_form]],
                    built |-> built, compared |-> compared, point_group |-> point_group]
  /\ replay = [heap |-> [caller |-> CallerStructure(inp), copy |-> <<>>],
               atoms_shifted |-> "None"]

\* START of solve_for_internal_params, reading the caller's object
FrameAlign ==
  /\ pc = "START" /\ inp.op = "solve"
  /\ \E tool_ok \in BOOLEAN, label_detected \in DetectedLabels(inp.nominal_prototype_label),
        comparison_result \in ComparisonResults, ops \in OpLists :
       LET run == solve_start([inp EXCEPT !.atoms = replay.heap.caller.atoms],
                    [tool_ok |-> tool_ok, label_detected |-> label_detected,
                     comparison_result |-> comparison_result,
                     origin_shift |->
                       get_basistransformation_rotation_originshift_from_atoms(
                         comparison_result)[3],
                     ops |-> ops])
       IN  /\ Becomes(run)
           /\ replay' = IF run.pc = "ALIGNED"
                        THEN shifted_copy(replay.heap, run.work.atoms_shifted)
                        ELSE replay
  /\ UNCHANGED inp

\* an iteration of the loop over the internal translations: the object atoms_shifted
\* names is translated and wrapped
FrameTryShift ==
  /\ pc = "ALIGNED" /\ inp.op = "solve"
  /\ work.idx <= Len(work.internal_cartesian_translations)
  /\ LET held == replay.heap[replay.atoms_shifted].atoms
     IN  \E ds \in Datasets(held, inp.nominal_prototype_label) :
           LET run == solve_iteration(inp, [work EXCEPT !.atoms_shifted = held],
                                      ds, IdentityHash)
           IN  /\ Becomes(run)
               /\ replay' = [replay EXCEPT !.heap[replay.atoms_shifted].atoms =
                                              run.work.atoms_shifted]
  /\ UNCHANGED inp

\* the return after the loop
FrameExhaust ==
  /\ pc = "ALIGNED" /\ inp.op = "solve"
  /\ work.idx > Len(work.internal_cartesian_translations)
  /\ pc' = "EXHAUSTED"
  /\ out' = give_up
  /\ UNCHANGED <<inp, work, replay>>

\* a call of confirm_unrotated_prototype_designation, reading the caller's object
FrameConfirm ==
  /\ pc = "call" /\ inp.op = "confirm"
  /\ LET reset == reset_copy(replay.heap, inp.built)
     IN  /\ out' = confirm_unrotated_prototype_designation(
                     replay.heap.caller.cell.cellpar, inp.built, inp.compared,
                     inp.point_group)
         /\ replay' = [heap |-> reset.heap, atoms_shifted |-> reset.reference_atoms_copy]
  /\ pc' = "done"
  /\ UNCHANGED <<inp, work>>

NextFrame == FrameAlign \/ FrameTryShift \/ FrameExhaust \/ FrameConfirm

SpecFrame == InitFrame /\ [][NextFrame]_vars
-----------------------------------------------------------------------------
(* Order of the returned orbits (SpecExtract) *)

\* the orbit before comes first in species-then-letter order
InOrder(first, second) ==
  \/ first.species < second.species
  \/ first.species = second.species /\ first.wyckoff_letter <= second.wyckoff_letter

\* C11: the list group_positions_by_wyckoff returns holds one entry per orbit and is
\* sorted by species first and by detected Wyckoff letter second: of two consecutive
\* entries either the first species is smaller, or the species are equal and the first
\* letter is not greater
C11_Sorted ==
  (Grouped /\ out.kind = "return") =>
    /\ Len(out.value) = Len(inp.blocks)
    /\ \A i \in 1..(Len(out.value) - 1) : InOrder(out.value[i], out.value[i + 1])

\* a call that returns two orbits of one species which the structure lists with the
\* later letter first
C11_Witness ==
  /\ Grouped /\ out.kind = "return"
  /\ Len(inp.blocks) = 2
  /\ inp.blocks[1].species = inp.blocks[2].species
  /\ inp.blocks[1].letter > inp.blocks[2].letter
  /\ out.value[1].wyckoff_letter = inp.blocks[2].letter
  /\ out.value[2].wyckoff_letter = inp.blocks[1].letter

-----------------------------------------------------------------------------
(* Properties of the equation builder (SpecEquations) *)

BuiltEquations == pc = "done" /\ inp.op = "equations" /\ out.kind = "return"

\* C12: every equation set that get_equation_sets_from_prototype returns holds as many
\* coefficient matrices as constant columns, and that number times the lattice points
\* per conventional cell of the label's centering is the multiplicity that
\* WYCKOFF_MULTIPLICITIES lists for the set's letter in the label's space group
C12_RunLength ==
  BuiltEquations =>
    \A e \in DOMAIN out.value :
      LET set == out.value[e]
          row == WYCKOFF_MULTIPLICITIES[int_of(inp.prototype_label[3], 0)]
      IN  /\ Len(set.coeff_matrix_list) = Len(set.const_terms_list)
          /\ Len(set.coeff_matrix_list)
               * LatticeDivisor(inp.prototype_label[2][2], TRUE)
             = row[letter_index(set.wyckoff_letter)]

\* sets are returned for a rhombohedral label, where the multiplicities per primitive
\* cell, 1 and 2, are a third of the tabulated 3 and 6
C12_Witness ==
  /\ BuiltEquations
  /\ inp.prototype_label = Label_AB2_hR3_166_a_c
  /\ Len(out.value) = 2
  /\ Len(out.value[1].coeff_matrix_list) = 1
  /\ Len(out.value[2].coeff_matrix_list) = 2

\* the letters of the label, expanded, in label order
ExpandedLetters == Flatten(get_wyckoff_lists_from_prototype(inp.prototype_label).val)

RECURSIVE SitesBefore(_, _)
\* the number of sites of the sets before set e
SitesBefore(sets, e) ==
  IF e = 1 THEN 0 ELSE SitesBefore(sets, e - 1) + Len(sets[e - 1].const_terms_list)

\* one set per expanded letter in label order, set e made of the lines that follow
\* the lines of the sets before it
RunsInLabelOrder ==
  /\ Len(out.value) = Len(ExpandedLetters)
  /\ \A e \in DOMAIN out.value :
       /\ out.value[e].wyckoff_letter = ExpandedLetters[e]
       /\ \A j \in DOMAIN out.value[e].const_terms_list :
            out.value[e].const_terms_list[j]
              = inp.coord_lines[SitesBefore(out.value, e) + j].const_terms

\* the sets hold as many sites as the answer of the tool has coordinate lines, one per
\* atom of the primitive cell
EveryLineConsumed ==
  SitesBefore(out.value, Len(out.value) + 1) = Len(inp.coord_lines)

\* C13: get_equation_sets_from_prototype returns one equation set per expanded Wyckoff
\* letter of the label, in label order, made of consecutive runs of coordinate lines,
\* and the runs consume every coordinate line exactly once, so that the sets hold as
\* many sites as the primitive cell has atoms
C13_EveryLineOnce ==
  BuiltEquations => RunsInLabelOrder /\ EveryLineConsumed

-----------------------------------------------------------------------------
(* Properties of the orientation confirmer (SpecConfirm) *)

ConfirmCalled == pc = "done" /\ inp.op = "confirm"

\* (a) the cell was rebuilt and its lengths and angles are close to the reference's
CellsClose == inp.built.exc = "" /\ allclose(inp.reference_cell, inp.built.cell)
\* (b) the structure comparison answered with a rigid motion
MotionFound == inp.compared.exc = "" /\ inp.compared.found
\* (c) the point group command answered and one of its operations is close to the
\* rotation of that motion
RotationInPointGroup ==
  /\ inp.point_group.exc = ""
  /\ \E k \in DOMAIN inp.point_group.ops :
       allclose(inp.compared.cart_rot, inp.point_group.ops[k])

\* C14: confirm_unrotated_prototype_designation returns True only if the rebuilt and the
\* reference cell have close lengths and angles, the structure comparison found a rigid
\* motion and its rotation is close to an operation of the reference's point group; on
\* a cell mismatch, on a comparison without a motion and on a rotation outside the
\* operations the point group command listed it returns False and does not raise
C14_TrueOnlyIfUnrotated ==
  ConfirmCalled =>
    /\ out = Return(TRUE) => (CellsClose /\ MotionFound /\ RotationInPointGroup)
    /\ (inp.built.exc = "" /\ ~CellsClose) => out = Return(FALSE)
    /\ (CellsClose /\ inp.compared.exc = "" /\ ~inp.compared.found) => out = Return(FALSE)
    /\ (CellsClose /\ MotionFound /\ inp.point_group.exc = "" /\ ~RotationInPointGroup)
         => out = Return(FALSE)

\* a call that returns True for a cell and a rotation that are close to, and not equal
\* to, the reference cell and the identity
C14_Witness ==
  /\ ConfirmCalled
  /\ out = Return(TRUE)
  /\ inp.built.cell = RebuiltCell(14)
  /\ inp.compared.cart_rot = NearIdentity3(-11)
  /\ inp.point_group.ops = <<QuarterTurn3, Identity3>>

-----------------------------------------------------------------------------
(* Properties of reading a label (SpecLabel) *)

\* the calls made so far
StoichRead == Len(work) >= 1
WyckoffRead == Len(work) >= 2
\* the Wyckoff sections of the label
Sections == SubSeq(inp.prototype_label, 4, Len(inp.prototype_label))

\* the digits that stand directly before place p of s
DigitsBefore(s, p) ==
  LET q == CHOOSE q \in 1..p : /\ \A i \in q..(p - 1) : isdigit(s[i])
                               /\ q = 1 \/ ~isdigit(s[q - 1])
  IN  SubSeq(s, q, p - 1)

\* the digits that stand directly after place p of s
DigitsAfter(s, p) ==
  LET q == CHOOSE q \in p..Len(s) : /\ \A i \in (p + 1)..q : isdigit(s[i])
                                    /\ q = Len(s) \/ ~isdigit(s[q + 1])
  IN  SubSeq(s, p + 1, q)

\* the number a string of digits writes, 1 for no digit
Written(digits) == IF digits = <<>> THEN 1 ELSE int_of(digits, 0)

RECURSIVE RunsExpanded(_, _)
\* every letter of s from place p on, as often as the number before it says
RunsExpanded(s, p) ==
  IF p > Len(s) THEN <<>>
  ELSE IF isalpha(s[p])
    THEN [i \in 1..Written(DigitsBefore(s, p)) |-> s[p]] \o RunsExpanded(s, p + 1)
  ELSE RunsExpanded(s, p + 1)

\* s is made of runs "<count><letter>" with counts that are absent or positive
MadeOfRuns(s) ==
  /\ \A i \in DOMAIN s : isalpha(s[i]) \/ isdigit(s[i])
  /\ s = <<>> \/ isalpha(s[Len(s)])
  /\ \A p \in DOMAIN s : isalpha(s[p]) => Written(DigitsBefore(s, p)) > 0

\* C15: for Wyckoff sections made of runs "<count><letter>" (count absent, or a
\* positive number of one or more digits) get_wyckoff_lists_from_prototype returns
\* every section with each run replaced by its letter repeated count times, a bare
\* letter once, in the order of the letters; a section without digits is returned
\* unchanged
C15_RunLengthExpansion ==
  (WyckoffRead /\ \A k \in DOMAIN Sections : MadeOfRuns(Sections[k])) =>
    /\ ~work[2].err
    /\ Len(work[2].val) = Len(Sections)
    /\ \A k \in DOMAIN Sections :
         /\ work[2].val[k] = RunsExpanded(Sections[k], 1)
         /\ (\A i \in DOMAIN Sections[k] : isalpha(Sections[k][i]))
              => work[2].val[k] = Sections[k]

\* "ef2h2kl" has been expanded to "efhhkkl"
C15_Witness ==
  /\ WyckoffRead
  /\ Sections = << <<101, 102, 50, 104, 50, 107, 108>> >>
  /\ work[2].val = << <<101, 102, 104, 104, 107, 107, 108>> >>

\* a section with a count that no letter follows, or with a character that is neither
\* letter nor digit
DanglingOrForeign(s) ==
  \/ s # <<>> /\ isdigit(s[Len(s)])
  \/ \E i \in DOMAIN s : ~isalpha(s[i]) /\ ~isdigit(s[i])

\* C16: get_wyckoff_lists_from_prototype raises whenever a Wyckoff section holds a count
\* that no letter follows or a character that is neither a letter nor a digit
C16_DanglingCountRaises ==
  (WyckoffRead /\ \E k \in DOMAIN Sections : DanglingOrForeign(Sections[k]))
    => work[2].err

\* the stoichiometric prefix of the label
Prefix == inp.prototype_label[1]

\* the places of the letters of s, in order
LetterPlaces(s) == SelectSeq([i \in DOMAIN s |-> i], LAMBDA i : isalpha(s[i]))

\* s is made of letters each followed by no number or by a positive one
MadeOfSpecies(s) ==
  /\ s # <<>> /\ isalpha(s[1])
  /\ \A i \in DOMAIN s : isalpha(s[i]) \/ isdigit(s[i])
  /\ \A p \in DOMAIN s : isalpha(s[p]) => Written(DigitsAfter(s, p)) > 0

\* C17: for a stoichiometric prefix of letters each followed by no number or by a
\* positive decimal number, get_stoich_reduced_list_from_prototype returns one integer
\* per letter, in order: the number after the letter, or 1 when no digit follows
C17_StoichList ==
  (StoichRead /\ MadeOfSpecies(Prefix)) =>
    /\ work[1].err = ""
    /\ Len(work[1].val) = Len(LetterPlaces(Prefix))
    /\ \A k \in DOMAIN work[1].val :
         work[1].val[k] = Written(DigitsAfter(Prefix, LetterPlaces(Prefix)[k]))

\* "AB3" has been read as [1, 3]
C17_Witness ==
  /\ StoichRead
  /\ Prefix = <<65, 66, 51>>
  /\ work[1].val = <<1, 3>>

\* the label is malformed: a character of the prefix is neither letter nor digit, the
\* Pearson symbol writes no positive atom count, or there are not as many Wyckoff
\* sections as the prefix has species
Malformed ==
  \/ \E i \in DOMAIN Prefix : ~isalpha(Prefix[i]) /\ ~isdigit(Prefix[i])
  \/ pearson_count(inp.prototype_label[2], 0) <= 0
  \/ Len(Sections) # Len(LetterPlaces(Prefix))

\* C18: no malformed label is read successfully: one of the calls raises
C18_MalformedRaises ==
  (pc = "done" /\ inp.op = "label" /\ Malformed) => out.kind = "raise"

-----------------------------------------------------------------------------
(* Properties of the property instances of a driver (SpecDriver) *)

\* the instances were all made by _add_property_instance: there are as many as were
\* created, and instance i carries instance-id i and was the i-th to be created
NumberedInOrder ==
  ~work.edited =>
    /\ Len(work.property_instances) = work.created
    /\ \A i \in DOMAIN work.property_instances :
         /\ work.property_instances[i].instance_id = i
         /\ work.property_instances[i].serial.n = i

\* _setup and __call__, and the return of _calculate, leave the instances alone
CallKeepsInstances ==
  inp'.op \in {"__call__", "return"} => work'.property_instances = work.property_instances

\* a key is written to the instance created last and to no other
KeyGoesToLatest ==
  (inp'.op = "_add_key_to_current_property_instance" /\ ~work.edited) =>
    /\ Len(work'.property_instances) = Len(work.property_instances)
    /\ \A i \in DOMAIN work.property_instances :
         \/ work'.property_instances[i] = work.property_instances[i]
         \/ /\ work.property_instances[i].serial.n = work.created
            /\ out'.kind # "raise"
            /\ work'.property_instances[i]
                 = [work.property_instances[i] EXCEPT
                      !.keys = work'.property_instances[i].keys]

\* an _add_property_instance that raises leaves the instances alone
FailedAddKeepsInstances ==
  (inp'.op = "_add_property_instance" /\ out'.kind = "raise")
    => work'.property_instances = work.property_instances

\* C19: after n successful _add_property_instance calls on one driver, over any number
\* of invocations, property_instances holds n instances with instance-ids 1..n in the
\* order of creation; _setup and __call__ remove or reset none, a key written by
\* _add_key_to_current_property_instance goes to the instance added last and to no
\* other, and an _add_property_instance that fails (unknown property, or the new
\* instance-id already carried) leaves the instances unchanged
C19_InstancesAccumulate ==
  /\ []NumberedInOrder
  /\ [][CallKeepsInstances /\ KeyGoesToLatest /\ FailedAddKeepsInstances]_vars

\* three instances made in two invocations, the key of the second invocation written
\* to the third instance only
C19_Witness ==
  /\ ~work.edited
  /\ Len(work.property_instances) = 3
  /\ work.property_instances[1].serial.call = 1
  /\ work.property_instances[3].serial.call = 2
  /\ work.property_instances[1].keys = {}
  /\ work.property_instances[2].keys = {}
  /\ work.property_instances[3].keys = {"species"}

\* an _add_property_instance has failed because the new instance-id is carried already
C19_CollisionSeen ==
  /\ inp.op = "_add_property_instance"
  /\ out.kind = "raise"
  /\ \E i \in DOMAIN work.property_instances :
       work.property_instances[i].instance_id = Len(work.property_instances) + 1

-----------------------------------------------------------------------------
(* Properties of CrystalGenomeTestDriver._setup (SpecSetup) *)

\* how many of the three required parts of the designation are given
RequiredGiven ==
  Cardinality({part \in {"stoichiometric_species", "prototype_label",
                         "parameter_values_angstrom"} : inp.args[part] # "None"})

\* C20: CrystalGenomeTestDriver._setup raises KIMTestDriverError in every call that
\* gives some but not all of stoichiometric_species, prototype_label and
\* parameter_values_angstrom, whichever of them is missing
C20_PartialDesignationRaises ==
  (pc = "done" /\ inp.op = "_setup" /\ RequiredGiven \in {1, 2})
    => out = Raise("KIMTestDriverError")


-----------------------------------------------------------------------------
(* Properties of the shift search (Spec) *)

\* the inconsistencies orbit extraction reports against the nominal label
Inconsistencies ==
  {"incorrectNumAtomsException", "incorrectSpaceGroupException",
   "incorrectNumSpeciesException", "inconsistentWyckoffException"}

\* the orbits of the shifted structure just tried, as extracted against the nominal
\* label from what the symmetry finder reported for it
Reextracted ==
  group_positions_by_wyckoff(work.atoms_shifted, inp.nominal_prototype_label,
                             work.ds, IdentityHash)

\* a shift was tried and the re-extraction of the orbits reported an inconsistency
ShiftInconsistent ==
  /\ pc # "START" /\ work.aligned /\ work.tried > 0
  /\ Reextracted.kind = "raise"
  /\ Reextracted.exc \in Inconsistencies

\* C21: a shift whose re-extraction reports an inconsistency is abandoned alone: while
\* untried shifts remain the attempt stays ALIGNED, without an outcome, ready for the
\* next shift
C21_InconsistencySkipsShift ==
  (ShiftInconsistent /\ work.tried < Len(work.internal_cartesian_translations))
    => (pc = "ALIGNED" /\ out = Pending /\ work.idx = work.tried + 1)

\* the structure after the origin shift was undone, before any internal translation
AlignedAtoms ==
  translate(inp.atoms, [i \in 1..3 |-> -work.ext.origin_shift[i]])

RECURSIVE TotalDisplacement(_, _)
\* the sum of the first n translations of the list
TotalDisplacement(translations, n) ==
  IF n = 0 THEN Zero3
  ELSE LET before == TotalDisplacement(translations, n - 1)
       IN  [i \in 1..3 |-> before[i] + translations[n][i]]

\* two displacements that differ by a lattice vector
SameOffset(u, v) == \A i \in 1..3 : (u[i] - v[i]) % Grid = 0

\* the structure orbit matching was last attempted on is the aligned structure
\* displaced by the sum of the translations applied so far
CumulativeDisplacement ==
  (pc # "START" /\ work.aligned /\ work.tried > 0) =>
    work.atoms_shifted =
      wrap(translate(AlignedAtoms,
                     TotalDisplacement(work.internal_cartesian_translations, work.tried)))

\* C22: when the shift search ends without a match, every internal translation of the
\* enumerated list has been, modulo lattice vectors, the total displacement of the
\* aligned structure in one of the attempts
C22_EveryOffsetTried ==
  (ShiftsExhausted /\ out = ReturnNone) =>
    \A k \in DOMAIN work.internal_cartesian_translations :
      \E j \in 1..work.tried :
        SameOffset(TotalDisplacement(work.internal_cartesian_translations, j),
                   work.internal_cartesian_translations[k])

\* C23: the first attempt of the shift search is made on the aligned structure itself:
\* the first translation applied is zero (modulo lattice vectors), whatever list of
\* operations the external tool returned
C23_ZeroShiftFirst ==
  (pc # "START" /\ work.aligned /\ work.tried >= 1 /\ work.position_set_list # <<>>) =>
    /\ SameOffset(work.internal_cartesian_translations[1], Zero3)
    /\ work.tried = 1 => work.atoms_shifted = wrap(AlignedAtoms)

\* the labels agreed, the structures were compared, and the comparison reported no
\* duplicate of the candidate
NoMatchReported ==
  /\ pc # "START" /\ work.ext.tool_ok
  /\ prototype_labels_are_equivalent(inp.nominal_prototype_label,
                                     work.ext.label_detected, FALSE) = "True"
  /\ \/ ~work.ext.comparison_result[1].has_structures_duplicate
     \/ work.ext.comparison_result[1].structures_duplicate = <<>>

\* C24: when the structure comparison reports no match, the origin shift comes back as
\* None and the attempt ends in EXHAUSTED with failedToMatchException straight from
\* START: nothing is shifted, no orbits are extracted, no orbit matching is attempted
C24_NoMatchIsAlignmentFailure ==
  NoMatchReported =>
    /\ work.ext.origin_shift = <<>>
    /\ pc = "EXHAUSTED"
    /\ out = Raise("failedToMatchException")
    /\ ~work.aligned
    /\ work.tried = 0
    /\ work.atoms_shifted = <<>>
    /\ work.position_set_list = <<>>
    /\ work.matching = <<>>
    /\ ~ENABLED Next

\* the comparison answered with an empty list of duplicates and the attempt raised
C24_Witness ==
  /\ NoMatchReported
  /\ work.ext.comparison_result[1].has_structures_duplicate
  /\ out = Raise("failedToMatchException")

-----------------------------------------------------------------------------
(* Properties of the returned parameter list (Spec) *)

\* C25: a successful solve_for_internal_params has solved each internal parameter name
\* of the equation sets exactly once (the assertion against a second solution did not
\* fail), and returns one value in [0,1) per name, by ascending index and, within an
\* index, by axis x, y, z
C25_OneValuePerName ==
  /\ (pc # "START" /\ work.position_set_list # <<>>) => ~work.matching.assertion
  /\ pc = "SOLVED" =>
       LET names == ParamNamesOf(inp.equation_set_list)
           ordered == CanonicalNames(names)
           st == work.matching
       IN  /\ out.kind = "return"
           /\ Len(st.keys) = Cardinality(names)
           /\ Range(st.keys) = names
           /\ DOMAIN st.free_params_dict = names
           /\ Len(out.value) = Cardinality(names)
           /\ \A k \in DOMAIN out.value :
                /\ out.value[k] = st.free_params_dict[ordered[k]]
                /\ out.value[k][1] >= 0
                /\ out.value[k][1] < out.value[k][2]

\* three parameters of one orbit solved, one of them wrapped back into [0,1)
C25_Witness ==
  /\ pc = "SOLVED"
  /\ Len(out.value) = 3
  /\ \E n \in DOMAIN inp.values : inp.values[n] = Grid + 1

\* the prototype of the call has no internal free parameter
ZeroInternalParams == ParamNamesOf(inp.equation_set_list) = {}

\* equation set e was paired with an orbit of its species and Wyckoff set, and the
\* atom it was matched on lies at the constant vector of the matched site plus the
\* integer shift taken
PairedOnSite(e) ==
  LET pair == work.matching.pairs[e]
      equation_set == inp.equation_set_list[e]
  IN  /\ pair.set \in DOMAIN work.position_set_list
      /\ LET position_set == work.position_set_list[pair.set]
         IN  /\ VirtualOf(work.atoms_shifted, position_set.species) = equation_set.species
             /\ SameSet(equation_set.wyckoff_letter, position_set.wyckoff_letter,
                        NominalGroup)
             /\ pair.site \in DOMAIN equation_set.const_terms_list
             /\ pair.position \in DOMAIN position_set.frac_position_list
             /\ pair.shift \in 0..26
             /\ \A i \in 1..3 :
                  position_set.frac_position_list[pair.position][i]
                    = equation_set.const_terms_list[pair.site][i]
                      + Grid * shift_list(pair.shift)[i]

\* C26: for a prototype without internal parameters the solver succeeds only after
\* pairing every equation set with an orbit of its own (same species, same Wyckoff set,
\* an atom on a site's constant vector up to an integer shift) and then returns the
\* empty list; with an orbit left unpaired the attempt is not a success
C26_FixedPrototypeStillMatched ==
  ZeroInternalParams =>
    /\ pc = "SOLVED" =>
         /\ out = Return(<<>>)
         /\ Len(work.matching.pairs) = Len(inp.equation_set_list)
         /\ \A e \in DOMAIN inp.equation_set_list : PairedOnSite(e)
         /\ \A e, f \in DOMAIN inp.equation_set_list :
              e # f => work.matching.pairs[e].set # work.matching.pairs[f].set
    /\ (/\ pc # "START" /\ work.position_set_list # <<>>
        /\ \E i \in DOMAIN work.matching.matched : ~work.matching.matched[i])
         => (pc # "SOLVED" /\ out.kind # "return")

\* rock salt matched at the second internal translation, with a shuffled letter
C26_Witness ==
  /\ ZeroInternalParams /\ pc = "SOLVED" /\ out = Return(<<>>)
  /\ work.tried = 2
  /\ work.ext.origin_shift # Zero3
  /\ \E e \in DOMAIN inp.equation_set_list :
       work.position_set_list[work.matching.pairs[e].set].wyckoff_letter
         # inp.equation_set_list[e].wyckoff_letter

-----------------------------------------------------------------------------
(* Properties of the closing check of the equation builder (SpecEquations) *)

\* the Wyckoff sections of the label of the call, expanded
LabelSections == get_wyckoff_lists_from_prototype(inp.prototype_label).val

\* the places, in the list of equation sets, of the first set of every section but
\* the first
SectionStarts ==
  { Len(Flatten(SubSeq(LabelSections, 1, s - 1))) + 1 :
      s \in { t \in DOMAIN LabelSections : t > 1 /\ LabelSections[t] # <<>> } } \ {1}

\* the equation sets as read from the coordinate lines, before the closing check
SetsRead ==
  read_sets(inp.prototype_label, Flatten(LabelSections), inp.coord_lines, <<>>)

\* C27: where get_equation_sets_from_prototype returns, the first equation set of every
\* section of the label has another species than the set before it, the last of the
\* preceding section; where all sets were read and a section starts with the species
\* the preceding one ended with, it raises inconsistentWyckoffException
C27_SpeciesChangesBetweenSections ==
  (pc = "done" /\ inp.op = "equations") =>
    /\ out.kind = "return" =>
         \A first \in SectionStarts :
           out.value[first].species # out.value[first - 1].species
    /\ (/\ SetsRead.exc = ""
        /\ \E first \in SectionStarts :
             SetsRead.sets[first].species = SetsRead.sets[first - 1].species)
         => out = Raise("inconsistentWyckoffException")

\* sets returned for a label of two sections, the first of two letters and two species
C27_Witness ==
  /\ BuiltEquations
  /\ inp.prototype_label = Label_A2B_aP3_2_ab_c
  /\ Len(out.value) = 3
  /\ out.value[1].species = 66
  /\ out.value[2].species = 65
  /\ out.value[3].species = 66

\* the closing check has raised: all sets were read, the second section starts with
\* the species of the first
C27_CheckRaised ==
  /\ pc = "done" /\ inp.op = "equations"
  /\ inp.prototype_label = Label_AB_cF8_225_a_b
  /\ SetsRead.exc = ""
  /\ out = Raise("inconsistentWyckoffException")

-----------------------------------------------------------------------------
(* Properties of the label comparison (SpecCompare) *)

\* the pairs of enantiomorphic space groups
EnantiomorphicPairs ==
  { <<76, 78>>, <<91, 95>>, <<92, 96>>, <<144, 145>>, <<151, 153>>, <<152, 154>>,
    <<169, 170>>, <<171, 172>>, <<178, 179>>, <<180, 181>>, <<212, 213>> }

\* the space-group numbers of the two labels compared
ComparedNumbers ==
  <<int_of(inp.prototype_label_1[3], 0), int_of(inp.prototype_label_2[3], 0)>>

NumbersEnantiomorphic ==
  \/ ComparedNumbers \in EnantiomorphicPairs
  \/ <<ComparedNumbers[2], ComparedNumbers[1]>> \in EnantiomorphicPairs

\* the two labels differ in the space-group number only, by an enantiomorphic pair
DifferByEnantiomorph ==
  /\ NumbersEnantiomorphic
  /\ [inp.prototype_label_1 EXCEPT ![3] = <<>>] = [inp.prototype_label_2 EXCEPT ![3] = <<>>]

\* C28: labels that differ only by an enantiomorphic pair of space groups are
\* equivalent when allow_enantiomorph is set and not equivalent when it is not; for
\* labels whose space groups are not enantiomorphic the comparison returns a boolean
C28_EnantiomorphsEquivalent ==
  (pc = "done" /\ inp.op = "compare") =>
    /\ (DifferByEnantiomorph /\ inp.allow_enantiomorph) => out = Return(TRUE)
    /\ (DifferByEnantiomorph /\ ~inp.allow_enantiomorph) => out = Return(FALSE)
    /\ ~NumbersEnantiomorphic => (out.kind = "return" /\ out.value \in BOOLEAN)


-----------------------------------------------------------------------------
(* Properties of the Pearson families (SpecPearson) *)

\* the families of SPACE_GROUPS_FOR_EACH_PEARSON that list the space group
FamiliesOf(sgnum) ==
  { SPACE_GROUPS_FOR_EACH_PEARSON[k].pearson :
      k \in { l \in DOMAIN SPACE_GROUPS_FOR_EACH_PEARSON :
                sgnum \in SPACE_GROUPS_FOR_EACH_PEARSON[l].space_groups } }

\* C29: every space group 1..230 is listed in exactly one Pearson family, and
\* get_pearson_from_space_group returns that family, in whatever order the dictionary
\* is iterated
C29_OneFamilyPerGroup ==
  (pc = "done" /\ inp.op = "get_pearson_from_space_group") =>
    /\ Cardinality(FamiliesOf(inp.sgnum)) = 1
    /\ out.kind = "return"
    /\ out.value \in FamiliesOf(inp.sgnum)

-----------------------------------------------------------------------------
(* Properties of the caller's structure (SpecFrame) *)

\* C30: throughout a call of solve_for_internal_params or of
\* confirm_unrotated_prototype_designation, and whatever its outcome, the structure the
\* caller handed in keeps its species, positions and cell: shifts, wrapping and the
\* cell reset act on the copy
C30_CallerStructureKept ==
  /\ replay.heap.caller = CallerStructure(inp)
  /\ replay.atoms_shifted \in {"None", "copy"}

\* a resolution that succeeded on a copy that was shifted away from the caller's
\* structure
C30_Witness ==
  /\ inp.op = "solve" /\ pc = "SOLVED" /\ work.ext.origin_shift = <<1, 0, 0>>
  /\ replay.atoms_shifted = "copy"
  /\ replay.heap.copy.atoms = work.atoms_shifted
  /\ replay.heap.copy.atoms # replay.heap.caller.atoms

\* a confirmation that reset the cell of the copy of a reference not in standard form
C30_CellResetSeen ==
  /\ inp.op = "confirm" /\ pc = "done" /\ out = Return(TRUE)
  /\ replay.heap.copy.cell.standard_form
  /\ ~replay.heap.caller.cell.standard_form
====
